---- MODULE Spec2Model ----
(***************************************************************************)
(* ChainStore of mako (src/node/chaindb.c): the LMDB-backed block index,   *)
(* the coin table, the tip pointer and the append-only block files,        *)
(* together with the in-memory Entry graph that mirrors them.              *)
(*                                                                         *)
(* Persistent state: the four sub-databases (meta, coin, index, tip) and   *)
(* the files blocks/<n>.dat.  Volatile state: struct btc_chaindb_s and the *)
(* btc_entry_t objects.  One action per public call (open, close, save,    *)
(* reconnect, disconnect); each call takes the IO fault it meets, if any,  *)
(* as an input.                                                            *)
(***************************************************************************)
EXTENDS Integers, Sequences, FiniteSets, TLC

(***************************************************************************)
(* Bounds of the model.                                                    *)
(***************************************************************************)
\* Candidate blocks are 0..MaxBlock; block 0 is the network's genesis.
MaxBlock == 3
\* IO faults and crashes injected in one behaviour.
MaxFaults == 1
\* Inputs and outputs of a transaction handed to the TxEngine.
MaxInputs == 2
MaxOutputs == 2
\* Transactions of a block handed to the CompactBlockCodec.
MaxBlockTxs == 3
\* Short ids and prefilled transactions of a compact block read from the
\* wire (besides the blocks near the size limits).
MaxIds == 2
MaxPrefilled == 2
\* Transactions of a blocktxn response, indexes of a getblocktxn request.
MaxResponse == 2
MaxIndexes == 3
\* Values a short id can take (2^48 in the program).
SidSpace == 5
\* SIGTERM and SIGINT sent to the process in one behaviour.
MaxSignals == 3

(***************************************************************************)
(* Program constants.                                                      *)
(***************************************************************************)
\* block_pos / undo_pos / block_file / undo_file of an entry with no data.
NoPos == -1
\* A NULL entry pointer; also the all-zero prev_block of genesis and an
\* absent meta['R'].
NoEntry == -1
\* 512 << 20: the size at which the active file rolls over.
MaxFileSize == 536870912
\* BTC_MAX_BLOCK_SIZE of consensus.h.
BTC_MAX_BLOCK_SIZE == 1000000
\* Sighash types and the opcode btc_script_remove_separators drops.
BTC_SIGHASH_NONE == 2
BTC_SIGHASH_SINGLE == 3
BTC_SIGHASH_ANYONECANPAY == 128
OP_CODESEPARATOR == 171
\* BTC_MAX_MONEY of consensus.h, 21000000 * 100000000 satoshi, in whole
\* counts of 2^32 satoshi: an amount of the model is above the limit
\* exactly when its count is above this.
BTC_MAX_MONEY == 488944
\* BTC_COINBASE_MATURITY of consensus.h.
BTC_COINBASE_MATURITY == 100
\* Outputs of every coinbase / of every spending transaction of the
\* candidate blocks.
CoinbaseOutputs == 3
SpendOutputs == 1

(***************************************************************************)
(* The candidate blocks: a tree rooted at genesis.                         *)
(*   0 <- 1 <- 2 <- 4         (2 and 3 are siblings, as are 4 and 5, ...)  *)
(*          ^- 3                                                           *)
(* Block h >= 1 has the coinbase 2h; block h >= 2 also has the spending    *)
(* transaction 2h+1.  The first child of a block spends outputs 0 and 1 of *)
(* its parent's coinbase, the second child spends output 2.                *)
(***************************************************************************)
Blocks == 0..MaxBlock

\* One more block, handed to the store by ReorgSpec only: a block without
\* transactions.  The store does not look into a block before it saves it.
Hollow == MaxBlock + 1
Entries == Blocks \cup {Hollow}

PrevOf(h) == IF h = 0 THEN NoEntry ELSE IF h = 1 THEN 0 ELSE h \div 2

RECURSIVE HeightOf(_)
HeightOf(h) == IF h = 0 THEN 0 ELSE 1 + HeightOf(PrevOf(h))

\* The null outpoint of a coinbase input (zero hash, index 0xffffffff).
NullPrevout == <<NoEntry, NoEntry>>

CoinbaseTx(h) == [txid |-> 2 * h, inputs |-> <<NullPrevout>>,
                  nout |-> CoinbaseOutputs]

SpendTx(h) ==
  [txid   |-> 2 * h + 1,
   inputs |-> IF h % 2 = 0
              THEN << <<2 * PrevOf(h), 0>>, <<2 * PrevOf(h), 1>> >>
              ELSE << <<2 * PrevOf(h), 2>> >>,
   nout   |-> SpendOutputs]

BlockTxs(h) ==
  IF h = Hollow THEN <<>>
  ELSE IF h < 2 THEN <<CoinbaseTx(h)>> ELSE <<CoinbaseTx(h), SpendTx(h)>>

IsCoinbase(tx) == Len(tx.inputs) = 1 /\ tx.inputs[1] = NullPrevout

\* The outpoints a block's non-coinbase inputs consume, in spending order.
RECURSIVE SpentBy(_)
SpentBy(txs) ==
  IF txs = <<>> THEN <<>>
  ELSE (IF IsCoinbase(Head(txs)) THEN <<>> ELSE Head(txs).inputs) \o SpentBy(Tail(txs))

SeqToSet(s) == {s[i] : i \in 1..Len(s)}

\* The outpoints a block's transactions create.
CreatedBy(txs) ==
  UNION {{<<txs[i].txid, k>> : k \in 0..(txs[i].nout - 1)} : i \in 1..Len(txs)}

(***************************************************************************)
(* Codecs.                                                                 *)
(***************************************************************************)
\* btc_int32_write: four little-endian bytes, two's complement.
btc_int32_write(x) ==
  LET low == IF x < 0 THEN x + 2147483647 + 1 ELSE x
      top == IF x < 0 THEN 128 ELSE 0
  IN  << low % 256, (low \div 256) % 256, (low \div 65536) % 256,
         (low \div 16777216) + top >>

\* read32le assigned to an int: the four bytes read back as a signed value.
read32le(b) ==
  LET low == b[1] + 256 * b[2] + 65536 * b[3] + 16777216 * (b[4] % 128)
  IN  IF b[4] >= 128 THEN low - 2147483647 - 1 ELSE low

\* btc_entry_export: hash, prev_block, then height and the four file fields.
btc_entry_export(h, e) ==
  <<h, e.prev_block>> \o btc_int32_write(e.height) \o btc_int32_write(e.block_file)
    \o btc_int32_write(e.block_pos) \o btc_int32_write(e.undo_file) \o btc_int32_write(e.undo_pos)

\* btc_entry_import into a fresh btc_entry_create(): prev and next are NULL.
btc_entry_import(raw) ==
  [hash       |-> raw[1],
   prev_block |-> raw[2],
   height     |-> read32le(SubSeq(raw, 3, 6)),
   block_file |-> read32le(SubSeq(raw, 7, 10)),
   block_pos  |-> read32le(SubSeq(raw, 11, 14)),
   undo_file  |-> read32le(SubSeq(raw, 15, 18)),
   undo_pos   |-> read32le(SubSeq(raw, 19, 22)),
   prev       |-> NoEntry,
   next       |-> NoEntry]

\* btc_coin_export: height, coinbase flag and the output; the spent flag is
\* not part of the encoding.
btc_coin_export(c) == <<c.height, c.coinbase, c.output>>

\* btc_coin_import: a decoded coin is unspent.
btc_coin_import(raw) ==
  [height |-> raw[1], coinbase |-> raw[2], output |-> raw[3], spent |-> FALSE]

\* btc_undo_export / btc_undo_import: the coins in order.
btc_undo_export(undo) == [i \in 1..Len(undo) |-> btc_coin_export(undo[i])]
btc_undo_import(raw) == [i \in 1..Len(raw) |-> btc_coin_import(raw[i])]

\* btc_block_export / btc_undo_size: payload lengths in bytes.
btc_block_size(h) == 81 + 60 * Len(BlockTxs(h))
btc_undo_size(undo) == 1 + 10 * Len(undo)

(***************************************************************************)
(* State.                                                                  *)
(***************************************************************************)
VARIABLES
  metaF,    \* meta['F']: <<>> when absent, else file and pos, 4 bytes each
  metaR,    \* meta['R']: NoEntry when absent, else the tip hash
  coin,     \* the coin sub-database: outpoint -> encoded coin
  index,    \* the index sub-database: hash -> encoded entry
  tip,      \* the tip sub-database: the set of hashes stored
  fsize,    \* blocks/<n>.dat: file number -> size in bytes (existing files)
  frecs,    \* the records written whole to the files
  up,       \* TRUE while the process runs with the store open
  file,     \* db->file
  pos,      \* db->pos
  hashes,   \* db->hashes: the hashes mapped, each to its entry object
  heights,  \* db->heights
  head,     \* db->head
  tail,     \* db->tail
  ent,      \* the entry objects, by hash
  last,     \* history: the last call and how it ended
  chain,    \* history: the main-chain saves since the store was created
  nfaults,  \* history: faults injected so far
  rd,       \* the btc_chaindb_spend call a helper thread is in, if any
  wr,       \* the in-memory update a committed call is in, if any
  curtx,    \* TxEngine: the transaction the calls are made on
  txop,     \* TxEngine: the last call and what it returned
  cache,    \* TxEngine: the btc_tx_cache_t of the sighash calls
  cmpct,    \* CompactBlockCodec: the receiver's btc_cmpct_t
  peer,     \* CompactBlockCodec: the sender's block, if it built the message
  getblocktxn,  \* CompactBlockCodec: the btc_getblocktxn_t
  blocktxn, \* CompactBlockCodec: the btc_blocktxn_t
  zblock,   \* CompactBlockCodec: the block btc_cmpct_finalize fills
  cop,      \* CompactBlockCodec: the last call and what it returned
  ps        \* process: the terminate hook, the signals and their handlers

chainvars == <<metaF, metaR, coin, index, tip, fsize, frecs, up, file, pos,
               hashes, heights, head, tail, ent, last, chain, nfaults, rd, wr>>
txvars == <<curtx, txop, cache>>
cmpctvars == <<cmpct, peer, getblocktxn, blocktxn, zblock, cop>>
psvars == <<ps>>
vars == <<chainvars, txvars, cmpctvars, psvars>>

\* btc_entry_create + btc_entry_set_block as the caller does it for a block
\* it is about to save: no data positions, prev filled in, next NULL.
btc_entry_create(h) ==
  [hash |-> h, prev_block |-> PrevOf(h), height |-> HeightOf(h),
   block_file |-> NoPos, block_pos |-> NoPos,
   undo_file |-> NoPos, undo_pos |-> NoPos,
   prev |-> PrevOf(h), next |-> NoEntry]

FreshEntries == [h \in Entries |-> btc_entry_create(h)]

(***************************************************************************)
(* Views: the caller's pending coin delta for a block.                     *)
(***************************************************************************)
\* btc_view_create: no coins, empty undo log.
btc_view_create == [map |-> <<>>, undo |-> <<>>]

\* The coin an output becomes (btc_view_add).
OutputCoin(tx, k, height, spent) ==
  [height |-> height, coinbase |-> IsCoinbase(tx), output |-> <<tx.txid, k>>,
   spent |-> spent]

\* All outputs of the transactions txs as coins.
OutputCoins(txs, height, spent) ==
  [o \in CreatedBy(txs) |->
     LET i == CHOOSE i \in 1..Len(txs) : txs[i].txid = o[1]
     IN  OutputCoin(txs[i], o[2], height, spent)]

\* The view the chain builds while it validates block h against the coin
\* table c: every input is spent (a tombstone, its coin pushed on the undo
\* log), every output is added.
ViewOf(h, c) ==
  LET txs   == BlockTxs(h)
      spent == SpentBy(txs)
      outs  == OutputCoins(txs, HeightOf(h), FALSE)
  IN  [map  |-> [o \in SeqToSet(spent) \cup DOMAIN outs |->
                   IF o \in DOMAIN outs THEN outs[o]
                   ELSE [btc_coin_import(c[o]) EXCEPT !.spent = TRUE]],
       undo |-> [i \in 1..Len(spent) |-> btc_coin_import(c[spent[i]])]]

\* The inputs of block h are all unspent coins of c (the block passed
\* btc_tx_check_inputs).
Spendable(h, c) == SeqToSet(SpentBy(BlockTxs(h))) \subseteq DOMAIN c

\* As btc_chaindb_save_view, never deleting a row.
btc_chaindb_save_view_NoDelete(c, map) ==
  LET puts == {o \in DOMAIN map : ~map[o].spent}
  IN  [o \in DOMAIN c \cup puts |->
         IF o \in puts THEN btc_coin_export(map[o]) ELSE c[o]]

\* iterate_view over a whole view (btc_chaindb_save_view): a spent coin is
\* deleted (MDB_NOTFOUND is not an error), any other coin is put.
btc_chaindb_save_view(c, map) ==
  LET dels == {o \in DOMAIN map : map[o].spent}
      puts == DOMAIN map \ dels
  IN  [o \in (DOMAIN c \ dels) \cup puts |->
         IF o \in puts THEN btc_coin_export(map[o]) ELSE c[o]]

(***************************************************************************)
(* The active file.                                                        *)
(***************************************************************************)
SizeOf(fs, n) == IF n \in DOMAIN fs THEN fs[n] ELSE 0

\* btc_fs_open with BTC_O_CREAT | BTC_O_APPEND.
btc_fs_open(fs, n) == IF n \in DOMAIN fs THEN fs ELSE fs @@ (n :> 0)

\* btc_fs_write on a descriptor opened with BTC_O_APPEND: the bytes land at
\* the end of the file, wherever db->pos stands.
btc_fs_write(m, len, kind, data) ==
  [m EXCEPT !.fsize = [@ EXCEPT ![m.file] = @ + len],
            !.frecs = @ \cup {[file |-> m.file, at |-> SizeOf(m.fsize, m.file),
                               len |-> len, kind |-> kind, data |-> data]}]

\* A btc_fs_write that fails after part bytes.
FsWriteFailed(m, part) ==
  [m EXCEPT !.ok = FALSE, !.fsize = [@ EXCEPT ![m.file] = @ + part]]

\* As btc_chaindb_alloc, rotating already when the record ends at the limit.
btc_chaindb_alloc_AtLimit(m, len, fault) ==
  IF m.pos + len >= MaxFileSize
  THEN IF fault = "open_next"
       THEN [m EXCEPT !.ok = FALSE]
       ELSE [m EXCEPT !.file = @ + 1, !.pos = 0, !.fsize = btc_fs_open(@, m.file + 1)]
  ELSE m

\* btc_chaindb_alloc.
btc_chaindb_alloc(m, len, fault) ==
  IF m.pos + len > MaxFileSize
  THEN IF fault = "open_next"
       THEN [m EXCEPT !.ok = FALSE]
       ELSE [m EXCEPT !.file = @ + 1, !.pos = 0, !.fsize = btc_fs_open(@, m.file + 1)]
  ELSE m

\* btc_chaindb_write_block.
btc_chaindb_write_block(m, e, fault, part) ==
  LET len == btc_block_size(e) + 4
      a   == btc_chaindb_alloc(m, len, fault)
  IN  IF ~a.ok THEN a
      ELSE IF fault = "write_block" THEN FsWriteFailed(a, part)
      ELSE [btc_fs_write(a, len, "block", e) EXCEPT
              !.ent = [@ EXCEPT ![e] = [@ EXCEPT !.block_file = a.file,
                                                 !.block_pos = a.pos]],
              !.pos = a.pos + len]

\* btc_chaindb_write_undo.
btc_chaindb_write_undo(m, e, undo, fault, part) ==
  LET len == btc_undo_size(undo) + 4
      a   == btc_chaindb_alloc(m, len, fault)
  IN  IF ~a.ok THEN a
      ELSE IF fault = "write_undo" THEN FsWriteFailed(a, part)
      ELSE [btc_fs_write(a, len, "undo", btc_undo_export(undo)) EXCEPT
              !.ent = [@ EXCEPT ![e] = [@ EXCEPT !.undo_file = a.file,
                                                 !.undo_pos = a.pos]],
              !.pos = a.pos + len]

\* btc_chaindb_connect_block, inside the write transaction: m.coin is the
\* transaction's view of the coin table.
btc_chaindb_connect_block(m, e, view, fault, part) ==
  IF m.ent[e].height = 0 THEN m
  ELSE IF fault = "save_view" THEN [m EXCEPT !.ok = FALSE]
  ELSE LET m1 == [m EXCEPT !.coin = btc_chaindb_save_view(m.coin, view.map)]
       IN  IF Len(view.undo) # 0 /\ m1.ent[e].undo_pos = NoPos
           THEN btc_chaindb_write_undo(m1, e, view.undo, fault, part)
           ELSE m1

\* btc_chaindb_save_block.
btc_chaindb_save_block(m, e, withView, view, fault, part) ==
  LET m1 == IF m.ent[e].block_pos = NoPos THEN btc_chaindb_write_block(m, e, fault, part) ELSE m
  IN  IF ~m1.ok THEN m1
      ELSE IF ~withView THEN m1
      ELSE btc_chaindb_connect_block(m1, e, view, fault, part)

(***************************************************************************)
(* The calls.  d is the volatile state a call starts from; the result      *)
(* record holds the persistent and the volatile state it leaves and how it *)
(* ended: "ok" (returned success), "fail" (returned failure), "abort" (a   *)
(* CHECK failed or the process was killed by a fault of its own), "crash"  *)
(* (the process was stopped from outside).                                 *)
(***************************************************************************)
Volatile ==
  [file |-> file, pos |-> pos, fsize |-> fsize, frecs |-> frecs, ent |-> ent,
   hashes |-> hashes, heights |-> heights, head |-> head, tail |-> tail]

\* The result of a call that touched nothing.
Untouched(d, res) ==
  [res |-> res, metaF |-> metaF, metaR |-> metaR, coin |-> coin,
   index |-> index, tip |-> tip, fsize |-> d.fsize, frecs |-> d.frecs,
   file |-> d.file, pos |-> d.pos, ent |-> d.ent, hashes |-> d.hashes,
   heights |-> d.heights, head |-> d.head, tail |-> d.tail, txn |-> <<>>]

\* The result r of a call whose transaction was begun and then got the
\* calls listed ("commit", "abort"), in this order.
Ended(r, calls) == [r EXCEPT !.txn = @ \o <<"begin">> \o calls]

\* The write transaction's starting point.
Begin(d) ==
  [ok |-> TRUE, file |-> d.file, pos |-> d.pos, fsize |-> d.fsize,
   frecs |-> d.frecs, ent |-> d.ent, coin |-> coin]

\* As Aborted, with the coin writes of the transaction left in place.
Aborted_KeepCoin(d, m, res) ==
  [Untouched(d, res) EXCEPT !.fsize = m.fsize, !.frecs = m.frecs,
                            !.file = m.file, !.pos = m.pos, !.ent = m.ent,
                            !.coin = m.coin]

\* The result of a call whose transaction m was aborted or never committed:
\* the sub-databases are as before, the file writes and the changes to
\* db->file, db->pos and the entry object stay.
Aborted(d, m, res) ==
  [Untouched(d, res) EXCEPT !.fsize = m.fsize, !.frecs = m.frecs,
                            !.file = m.file, !.pos = m.pos, !.ent = m.ent]

\* As Failed, with the entry put into the hashes map before the commit.
Failed_Mapped(d, m, e) == [Aborted(d, m, "fail") EXCEPT !.hashes = @ \cup {e}]

\* The failure returns of save and reconnect for entry e: `goto fail`
\* (mdb_txn_abort, return 0) and the return 0 after a failed commit.
Failed(d, m, e) == Aborted(d, m, "fail")

\* meta['F'] as save and reconnect write it.
FileInfo(m) == btc_int32_write(m.file) \o btc_int32_write(m.pos)

\* As Connected, leaving db->tail where it was.
Connected_KeepTail(r, e) ==
  LET p == r.ent[e].prev
      linked == IF p # NoEntry
                THEN [r.ent EXCEPT ![p] = [@ EXCEPT !.next = e]]
                ELSE r.ent
  IN  IF Len(r.heights) # r.ent[e].height
      THEN [r EXCEPT !.res = "abort", !.ent = linked]
      ELSE [r EXCEPT !.ent = linked,
                     !.heights = Append(@, e),
                     !.head = IF r.ent[e].height = 0 THEN e ELSE @,
                     !.tail = IF r.ent[e].height = 0 THEN e ELSE @]

\* As Connected, without setting the next pointer of the previous entry.
Connected_NoNext(r, e) ==
  IF Len(r.heights) # r.ent[e].height
  THEN [r EXCEPT !.res = "abort"]
  ELSE [r EXCEPT !.heights = Append(@, e),
                 !.head = IF r.ent[e].height = 0 THEN e ELSE @,
                 !.tail = e]

\* The main-chain part of the in-memory update of save and reconnect.
Connected(r, e) ==
  LET p == r.ent[e].prev
      linked == IF p # NoEntry
                THEN [r.ent EXCEPT ![p] = [@ EXCEPT !.next = e]]
                ELSE r.ent
  IN  IF Len(r.heights) # r.ent[e].height
      THEN [r EXCEPT !.res = "abort", !.ent = linked]
      ELSE [r EXCEPT !.ent = linked,
                     !.heights = Append(@, e),
                     !.head = IF r.ent[e].height = 0 THEN e ELSE @,
                     !.tail = e]

\* As ChainState, writing the tip pointer for a side-chain save too.
ChainState_Always(withView, e, old) == e

\* meta['R'] after the "Write state (main chain only)" step of save.
ChainState(withView, e, old) == IF withView THEN e ELSE old

\* As MainChainOnly, doing the main-chain update for a side-chain save too.
MainChainOnly_Always(withView, r, e) == Connected(r, e)

\* The "Main-chain-only stuff" of save: skipped when view == NULL.
MainChainOnly(withView, r, e) == IF withView THEN Connected(r, e) ELSE r

\* btc_chaindb_save.
btc_chaindb_save(d, e, withView, view, fault, part) ==
  LET m == btc_chaindb_save_block(Begin(d), e, withView, view, fault, part)
      clearFails == m.ent[e].height # 0 /\ m.ent[e].prev_block \notin tip
      stored ==
        [Ended(Aborted(d, m, "ok"), <<"commit">>) EXCEPT
           !.coin   = m.coin,
           !.metaF  = FileInfo(m),
           !.index  = [h \in DOMAIN index \cup {e} |->
                         IF h = e THEN btc_entry_export(e, m.ent[e]) ELSE index[h]],
           !.tip    = (tip \ {m.ent[e].prev_block}) \cup {e},
           !.metaR  = ChainState(withView, e, @)]
      mapped == [stored EXCEPT !.hashes = @ \cup {e}]
  IN  IF fault = "begin" THEN Untouched(d, "fail")
      ELSE IF ~m.ok \/ fault = "put" \/ clearFails
      THEN Ended(Failed(d, m, e), <<"abort">>)
      ELSE IF fault = "crash_before_commit" THEN Ended(Aborted(d, m, "crash"), <<>>)
      ELSE IF fault = "commit" THEN Ended(Failed(d, m, e), <<"commit">>)
      ELSE IF fault = "crash_after_commit" THEN [stored EXCEPT !.res = "crash"]
      ELSE IF e \in d.hashes THEN [stored EXCEPT !.res = "abort"]
      ELSE MainChainOnly(withView, mapped, e)

\* btc_chaindb_reconnect.
btc_chaindb_reconnect(d, e, view, fault, part) ==
  LET m == btc_chaindb_connect_block(Begin(d), e, view, fault, part)
      stored ==
        [Ended(Aborted(d, m, "ok"), <<"commit">>) EXCEPT
           !.coin  = m.coin,
           !.metaF = FileInfo(m),
           !.metaR = e]
  IN  IF fault = "begin" THEN Untouched(d, "fail")
      ELSE IF ~m.ok \/ fault = "put"
      THEN Ended(Failed(d, m, e), <<"abort">>)
      ELSE IF fault = "crash_before_commit" THEN Ended(Aborted(d, m, "crash"), <<>>)
      ELSE IF fault = "commit" THEN Ended(Failed(d, m, e), <<"commit">>)
      ELSE IF fault = "crash_after_commit" THEN [stored EXCEPT !.res = "crash"]
      ELSE IF stored.ent[e].prev = NoEntry THEN [stored EXCEPT !.res = "abort"]
      ELSE Connected(stored, e)

\* The entries reached from h by prev links.
RECURSIVE WalkFrom(_, _)
WalkFrom(es, h) == IF h = NoEntry THEN {} ELSE {h} \cup WalkFrom(es, es[h].prev)

\* btc_chaindb_load when meta['R'] is present: the entries of the index,
\* their prev links, then heights and the next links along the walk from
\* the tip.  ok is FALSE when one of its CHECKs fails.
btc_chaindb_load ==
  LET hs     == DOMAIN index
      read   == [h \in hs |-> btc_entry_import(index[h])]
      gens   == {h \in hs : read[h].height = 0}
      ok     == /\ \A h \in hs \ gens : read[h].prev_block \in hs
                /\ gens # {}
                /\ metaR \in hs
      linked == [h \in hs |-> IF h \in gens THEN read[h]
                              ELSE [read[h] EXCEPT !.prev = read[h].prev_block]]
      walk   == WalkFrom(linked, metaR)
      nexts  == [h \in hs |->
                   IF \E c \in walk : linked[c].prev = h
                   THEN [linked[h] EXCEPT
                           !.next = CHOOSE c \in walk : linked[c].prev = h]
                   ELSE linked[h]]
  IN  IF ~ok THEN [ok |-> FALSE]
      ELSE [ok      |-> TRUE,
            hashes  |-> hs,
            ent     |-> [h \in Entries |-> IF h \in hs THEN nexts[h] ELSE btc_entry_create(h)],
            heights |-> [i \in 1..(linked[metaR].height + 1) |->
                           IF \E c \in walk : linked[c].height = i - 1
                           THEN CHOOSE c \in walk : linked[c].height = i - 1
                           ELSE NoEntry],
            head    |-> CHOOSE g \in gens : TRUE,
            tail    |-> metaR]

\* btc_chaindb_read_undo: the record at (undo_file, undo_pos), or an empty
\* undo log for an entry without one.  ok is FALSE when it returns NULL.
btc_chaindb_read_undo(d, e, fault) ==
  LET x     == d.ent[e]
      found == {r \in d.frecs : r.file = x.undo_file /\ r.at = x.undo_pos
                                /\ r.kind = "undo"}
  IN  IF x.undo_pos = NoPos THEN [ok |-> TRUE, undo |-> <<>>]
      ELSE IF fault = "read" \/ found = {} THEN [ok |-> FALSE]
      ELSE [ok |-> TRUE, undo |-> btc_undo_import((CHOOSE r \in found : TRUE).data)]

\* btc_view_put.
btc_view_put(map, prevout, c) ==
  [o \in DOMAIN map \cup {prevout} |-> IF o = prevout THEN c ELSE map[o]]

\* btc_view_add(view, tx, height, 1): every output of tx as a spent coin.
ViewAddSpent(map, tx, height) ==
  LET outs == OutputCoins(<<tx>>, height, TRUE)
  IN  [o \in DOMAIN map \cup DOMAIN outs |->
         IF o \in DOMAIN outs THEN outs[o] ELSE map[o]]

\* The element of tx->inputs.items the inner loop of
\* btc_chaindb_disconnect_block reads while it visits input j of
\* transaction i (both counted from 1 here).
VisitedInput(i, j) == i

\* The inner loop of btc_chaindb_disconnect_block from input j of
\* transaction i down; puts lists its calls of btc_view_put.  btc_undo_pop on an empty log ends the process: by
\* the CHECK of the pop itself or, with the length wrapped around, by
\* CHECK(undo->length == 0) after the loops.  An element read past the end
\* of tx->inputs is whatever g says it is.
RECURSIVE DisconnectInputs(_, _, _, _, _)
DisconnectInputs(tx, i, j, s, g) ==
  IF j = 0 \/ s.status # "run" THEN s
  ELSE IF Len(s.undo) = 0 THEN [s EXCEPT !.status = "abort"]
  ELSE LET k == VisitedInput(i, j)
           past == k > Len(tx.inputs)
       IN  IF past /\ g.segv THEN [s EXCEPT !.status = "abort"]
           ELSE DisconnectInputs(tx, i, j - 1,
                  [s EXCEPT
                     !.view = btc_view_put(@, IF past THEN g.out ELSE tx.inputs[k],
                                      s.undo[Len(s.undo)]),
                     !.puts = Append(@, [tx |-> i, input |-> j,
                                         at |-> IF past THEN g.out ELSE tx.inputs[k],
                                         coin |-> s.undo[Len(s.undo)]]),
                     !.undo = SubSeq(@, 1, Len(@) - 1)], g)

\* The outer loop, from transaction i down.
RECURSIVE DisconnectTxs(_, _, _, _, _)
DisconnectTxs(txs, i, height, s, g) ==
  IF i = 0 \/ s.status # "run" THEN s
  ELSE LET s1 == DisconnectInputs(txs[i], i, Len(txs[i].inputs), s, g)
       IN  DisconnectTxs(txs, i - 1, height,
             IF s1.status = "run"
             THEN [s1 EXCEPT !.view = ViewAddSpent(@, txs[i], height)]
             ELSE s1, g)

\* btc_chaindb_disconnect_block: status "ok" with the view and the
\* transaction's coin table, "null" when it returns NULL, "abort".
btc_chaindb_disconnect_block(d, e, fault, g) ==
  LET u   == btc_chaindb_read_undo(d, e, fault)
      txs == BlockTxs(e)
      s   == DisconnectTxs(txs, Len(txs), d.ent[e].height,
               [view |-> <<>>, undo |-> u.undo, status |-> "run", puts |-> <<>>], g)
  IN  IF ~u.ok THEN [status |-> "null", view |-> <<>>, coin |-> coin]
      ELSE IF s.status # "run" THEN [status |-> "abort", view |-> s.view, coin |-> coin]
      ELSE IF Len(s.undo) # 0 THEN [status |-> "abort", view |-> s.view, coin |-> coin]
      ELSE IF fault = "save_view" THEN [status |-> "null", view |-> s.view, coin |-> coin]
      ELSE [status |-> "ok", view |-> s.view, coin |-> btc_chaindb_save_view(coin, s.view)]

\* btc_chaindb_disconnect.  A failed commit is followed by mdb_txn_abort on
\* the transaction the commit has already freed: the call returns failure
\* or the process dies, as g says.
btc_chaindb_disconnect(d, e, fault, g) ==
  LET b == btc_chaindb_disconnect_block(d, e, fault, g)
      stored == [Ended(Untouched(d, "ok"), <<"commit">>) EXCEPT
                   !.coin = b.coin,
                   !.metaR = d.ent[e].prev_block]
      p == d.ent[e].prev
  IN  IF fault = "begin" THEN Untouched(d, "fail")
      ELSE IF b.status = "abort" THEN Ended(Untouched(d, "abort"), <<>>)
      ELSE IF b.status = "null" \/ fault = "put"
      THEN Ended(Untouched(d, "fail"), <<"abort">>)
      ELSE IF fault = "commit"
      THEN Ended(Untouched(d, IF g.segv THEN "abort" ELSE "fail"), <<"commit", "abort">>)
      ELSE IF fault = "crash_before_commit" THEN Ended(Untouched(d, "crash"), <<>>)
      ELSE IF fault = "crash_after_commit" THEN [stored EXCEPT !.res = "crash"]
      ELSE IF p = NoEntry \/ d.heights = <<>> THEN [stored EXCEPT !.res = "abort"]
      ELSE IF d.heights[Len(d.heights)] # e THEN [stored EXCEPT !.res = "abort"]
      ELSE [stored EXCEPT
              !.ent = [@ EXCEPT ![p] = [@ EXCEPT !.next = NoEntry]],
              !.heights = SubSeq(@, 1, Len(@) - 1),
              !.tail = p]

(***************************************************************************)
(* btc_chaindb_spend, as a helper thread runs it: a step for mdb_txn_begin,  *)
(* a step for every input btc_view_spend visits, a step for mdb_txn_abort   *)
(* and the return.                                                         *)
(***************************************************************************)
\* No call in progress and none made.
SpendIdle ==
  [pc |-> "idle", e |-> NoEntry, i |-> 0, open |-> 0, snap |-> <<>>, at |-> <<>>,
   view0 |-> <<>>, view |-> <<>>, errs |-> {}, logged |-> {}, rc |-> 0]

\* mdb_txn_begin with MDB_RDONLY: the transaction holds the tables as
\* committed at this moment.
SpendBegin(s, e, view, table, fault) ==
  IF fault = "begin"
  THEN [SpendIdle EXCEPT !.pc = "done", !.e = e, !.view0 = view, !.view = view]
  ELSE [SpendIdle EXCEPT !.pc = "run", !.e = e, !.i = 1, !.open = s.open + 1,
                         !.snap = table, !.at = table,
                         !.view0 = view, !.view = view]

\* As mdb_get, reading the table as committed now.
mdb_get_Latest(snap, now, key, fault) ==
  IF fault = "get" THEN [rc |-> "error", val |-> <<>>]
  ELSE IF key \in DOMAIN now THEN [rc |-> "ok", val |-> now[key]]
  ELSE [rc |-> "notfound", val |-> <<>>]

\* mdb_get in the read-only transaction that holds snap: 0 and the value,
\* MDB_NOTFOUND, or another error.
mdb_get(snap, now, key, fault) ==
  IF fault = "get" THEN [rc |-> "error", val |-> <<>>]
  ELSE IF key \in DOMAIN snap THEN [rc |-> "ok", val |-> snap[key]]
  ELSE [rc |-> "notfound", val |-> <<>>]

\* read_coin: the coin (found TRUE) or NULL; an error other than
\* MDB_NOTFOUND goes to stderr.
read_coin(snap, now, prevout, fault) ==
  LET r == mdb_get(snap, now, prevout, fault)
  IN  IF r.rc # "ok"
      THEN [found |-> FALSE, coin |-> <<>>, logged |-> r.rc # "notfound",
            failed |-> r.rc # "notfound"]
      ELSE [found |-> TRUE, coin |-> btc_coin_import(r.val), logged |-> FALSE,
            failed |-> FALSE]

\* btc_view_spend at input i of the spending transaction of block e: an
\* input the view lacks is fetched with read_coin and put into the view
\* when it is found; a missing coin does not stop the loop.
ViewSpendInput(s, now, fault) ==
  LET prevout == SpendTx(s.e).inputs[s.i]
      c == read_coin(s.snap, now, prevout, fault)
  IN  IF prevout \in DOMAIN s.view THEN [s EXCEPT !.i = @ + 1]
      ELSE [s EXCEPT !.i = @ + 1,
                     !.view = IF c.found THEN btc_view_put(@, prevout, c.coin) ELSE @,
                     !.errs = IF c.failed THEN @ \cup {prevout} ELSE @,
                     !.logged = IF c.logged THEN @ \cup {prevout} ELSE @]

\* mdb_txn_abort and the return of btc_view_spend's result: missing coins
\* are not an error, the view shows which inputs were resolved.
SpendEnd(s) ==
  [s EXCEPT !.pc = "done", !.open = @ - 1, !.snap = <<>>, !.rc = 1]

\* btc_chaindb_spend run to its end at once on a view and a coin table,
\* with no failure.
RECURSIVE SpendAll(_, _)
SpendAll(s, table) ==
  IF s.pc = "done" THEN s
  ELSE IF s.i > Len(SpendTx(s.e).inputs) THEN SpendEnd(s)
  ELSE SpendAll(ViewSpendInput(s, table, "none"), table)

(***************************************************************************)
(* Inputs of the calls.                                                    *)
(***************************************************************************)
\* The step of a call that fails, or the point at which the process is
\* stopped; a fault the call never reaches does not happen.
Faults ==
  {"none", "begin", "open_next", "write_block", "save_view", "write_undo",
   "read", "put", "commit", "crash_before_commit", "crash_after_commit"}

\* Bytes a failed btc_fs_write can leave in the file.
Parts(fault) == IF fault \in {"write_block", "write_undo"} THEN {0, 1} ELSE {0}

\* What a read past the end of block e's tx->inputs.items can yield: a
\* fault that kills the process, or a pointer to some input.
Garbage(e) ==
  LET ins == UNION {SeqToSet(BlockTxs(e)[i].inputs) : i \in 1..Len(BlockTxs(e))}
  IN  {[segv |-> TRUE, out |-> NullPrevout]} \cup
      {[segv |-> FALSE, out |-> o] : o \in IF ins = {} THEN {NullPrevout} ELSE ins}

(***************************************************************************)
(* TxEngine (src/tx.c): wire primitives.                                   *)
(* A byte string is a sequence of 0..255.  A reader takes the bytes left   *)
(* and returns [ok, val, xs]: whether it succeeded, the value read and the *)
(* bytes left after it.  A uint32 at or above 2^31 is held as the negative  *)
(* integer of the same 32 bits.  An amount (int64_t, satoshi) is held as a  *)
(* count of 2^32 satoshi: the amounts considered are the multiples of 2^32, *)
(* whose eight bytes are four zero bytes and the 32 bits of the count, and  *)
(* whose sums and differences in 64 bits are those of the counts in 32.     *)
(***************************************************************************)
\* The n little-endian bytes of x >= 0.
LE(x, n) ==
  [i \in 1..n |-> IF i > 4 THEN 0 ELSE (x \div (256 ^ (i - 1))) % 256]

\* The value of up to four little-endian bytes.
RECURSIVE FromLE(_)
FromLE(b) == IF b = <<>> THEN 0 ELSE b[1] + 256 * FromLE(Tail(b))

RECURSIVE Flatten(_)
Flatten(ss) == IF ss = <<>> THEN <<>> ELSE ss[1] \o Flatten(Tail(ss))

ReadFail(xs) == [ok |-> FALSE, val |-> <<>>, xs |-> xs]

\* btc_raw_read: the next n bytes.
btc_raw_read(xs, n) ==
  IF Len(xs) < n THEN ReadFail(xs)
  ELSE [ok |-> TRUE, val |-> SubSeq(xs, 1, n), xs |-> SubSeq(xs, n + 1, Len(xs))]

btc_uint8_write(x) == <<x>>
btc_uint32_write(x) == LE(x, 4)

\* btc_int64_write of the amount of x counts: eight little-endian bytes,
\* two's complement.
btc_int64_write(x) == <<0, 0, 0, 0>> \o btc_int32_write(x)

btc_uint32_read(xs) ==
  LET r == btc_raw_read(xs, 4) IN IF r.ok THEN [r EXCEPT !.val = read32le(@)] ELSE r

btc_int64_read(xs) ==
  LET r == btc_raw_read(xs, 8)
  IN  IF r.ok THEN [r EXCEPT !.val = read32le(SubSeq(@, 5, 8))] ELSE r

\* btc_size_write: the compact size of a length or count.
btc_size_write(n) ==
  IF n < 253 THEN <<n>>
  ELSE IF n <= 65535 THEN <<253>> \o LE(n, 2)
  ELSE <<254>> \o LE(n, 4)

\* btc_size_read: a compact size in its shortest form; the eight-byte form
\* does not fit a length.
btc_size_read(xs) ==
  IF xs = <<>> THEN ReadFail(xs)
  ELSE IF xs[1] < 253 THEN [ok |-> TRUE, val |-> xs[1], xs |-> Tail(xs)]
  ELSE IF xs[1] = 253
  THEN LET r == btc_raw_read(Tail(xs), 2)
       IN  IF r.ok /\ FromLE(r.val) >= 253 THEN [r EXCEPT !.val = FromLE(@)]
           ELSE ReadFail(xs)
  ELSE IF xs[1] = 254
  THEN LET r == btc_raw_read(Tail(xs), 4)
       IN  IF r.ok /\ r.val[4] < 128 /\ FromLE(r.val) > 65535
           THEN [r EXCEPT !.val = FromLE(@)]
           ELSE ReadFail(xs)
  ELSE ReadFail(xs)

\* A 32-byte hash whose bytes all are h.
Hash32(h) == [i \in 1..32 |-> h]

\* btc_script_write / btc_script_read: length and bytes.
btc_script_write(s) == btc_size_write(Len(s)) \o s
btc_script_read(xs) ==
  LET n == btc_size_read(xs)
  IN  IF n.ok THEN btc_raw_read(n.xs, n.val) ELSE ReadFail(xs)

\* btc_outpoint_write, btc_input_write, btc_output_write.
btc_outpoint_write(p) == Hash32(p.hash) \o btc_uint32_write(p.index)
btc_input_write(inp) ==
  btc_outpoint_write(inp.prevout) \o btc_script_write(inp.script)
    \o btc_uint32_write(inp.sequence)
btc_output_write(out) == btc_int64_write(out.value) \o btc_script_write(out.script)

\* btc_input_read: the witness of a decoded input is empty.
btc_input_read(xs) ==
  LET h == btc_raw_read(xs, 32)
      i == btc_uint32_read(h.xs)
      s == btc_script_read(i.xs)
      q == btc_uint32_read(s.xs)
  IN  IF h.ok /\ i.ok /\ s.ok /\ q.ok
      THEN [ok |-> TRUE, xs |-> q.xs,
            val |-> [prevout |-> [hash |-> h.val[1], index |-> i.val],
                     script |-> s.val, witness |-> <<>>, sequence |-> q.val]]
      ELSE ReadFail(xs)

btc_output_read(xs) ==
  LET v == btc_int64_read(xs)
      s == btc_script_read(v.xs)
  IN  IF v.ok /\ s.ok
      THEN [ok |-> TRUE, xs |-> s.xs, val |-> [value |-> v.val, script |-> s.val]]
      ELSE ReadFail(xs)

\* The read of DEFINE_SERIALIZABLE_VECTOR: the count, then as many items
\* with the reader Item, in order.
RECURSIVE ReadItems(_, _, _, _)
ReadItems(Item(_), n, xs, acc) ==
  IF n = 0 THEN [ok |-> TRUE, val |-> acc, xs |-> xs]
  ELSE LET r == Item(xs)
       IN  IF r.ok THEN ReadItems(Item, n - 1, r.xs, Append(acc, r.val))
           ELSE [ok |-> FALSE, val |-> acc, xs |-> xs]

ReadVector(Item(_), xs) ==
  LET n == btc_size_read(xs)
  IN  IF n.ok THEN ReadItems(Item, n.val, n.xs, <<>>) ELSE ReadFail(xs)

btc_inpvec_write(ins) ==
  btc_size_write(Len(ins)) \o Flatten([i \in 1..Len(ins) |-> btc_input_write(ins[i])])
btc_outvec_write(outs) ==
  btc_size_write(Len(outs)) \o Flatten([i \in 1..Len(outs) |-> btc_output_write(outs[i])])
btc_inpvec_read(xs) == ReadVector(btc_input_read, xs)
btc_outvec_read(xs) == ReadVector(btc_output_read, xs)

\* btc_stack_write / btc_stack_read: a witness, the count and the items.
btc_stack_write(w) ==
  btc_size_write(Len(w)) \o Flatten([i \in 1..Len(w) |-> btc_script_write(w[i])])
btc_stack_read(xs) == ReadVector(btc_script_read, xs)

(***************************************************************************)
(* TxEngine: transactions.                                                 *)
(***************************************************************************)
\* btc_tx_init.
btc_tx_init == [version |-> 1, inputs |-> <<>>, outputs |-> <<>>, locktime |-> 0]

\* As btc_tx_has_witness, looking at the first input only.
btc_tx_has_witness_First(tx) ==
  tx.inputs # <<>> /\ Len(tx.inputs[1].witness) > 0

\* btc_tx_has_witness: the loop returns 1 at the first input whose witness
\* has an item.
RECURSIVE WitnessFrom(_, _)
WitnessFrom(tx, i) ==
  IF i > Len(tx.inputs) THEN FALSE
  ELSE IF Len(tx.inputs[i].witness) > 0 THEN TRUE
  ELSE WitnessFrom(tx, i + 1)

btc_tx_has_witness(tx) == WitnessFrom(tx, 1)

\* The bytes btc_tx_write emits and btc_tx_digest hashes: the witness form
\* when witness is set, else the base form.
TxBytes(tx, witness) ==
  btc_uint32_write(tx.version)
    \o (IF witness THEN btc_uint8_write(0) \o btc_uint8_write(1) ELSE <<>>)
    \o btc_inpvec_write(tx.inputs)
    \o btc_outvec_write(tx.outputs)
    \o (IF witness
        THEN Flatten([i \in 1..Len(tx.inputs) |-> btc_stack_write(tx.inputs[i].witness)])
        ELSE <<>>)
    \o btc_uint32_write(tx.locktime)

\* As btc_tx_write, in the base form whatever the witnesses.
btc_tx_write_Base(tx) == TxBytes(tx, FALSE)

\* btc_tx_write.
btc_tx_write(tx) == TxBytes(tx, btc_tx_has_witness(tx))

\* btc_hash256_final: the digest of the bytes hashed, kept as those bytes
\* (raw is FALSE); a digest given as 32 literal bytes has raw TRUE.
btc_hash256(bytes) == [raw |-> FALSE, bytes |-> bytes]

\* btc_tx_digest, btc_tx_txid, btc_tx_wtxid.
btc_tx_digest(tx, witness) ==
  btc_hash256(TxBytes(tx, IF witness THEN btc_tx_has_witness(tx) ELSE FALSE))
btc_tx_txid(tx) == btc_tx_digest(tx, FALSE)
btc_tx_wtxid(tx) == btc_tx_digest(tx, TRUE)

\* The witness stacks of btc_tx_read, one per input from input i on.
RECURSIVE ReadWitnesses(_, _, _)
ReadWitnesses(ins, i, xs) ==
  IF i > Len(ins) THEN [ok |-> TRUE, val |-> ins, xs |-> xs]
  ELSE LET w == btc_stack_read(xs)
       IN  IF w.ok
           THEN ReadWitnesses([ins EXCEPT ![i] = [@ EXCEPT !.witness = w.val]],
                              i + 1, w.xs)
           ELSE [ok |-> FALSE, val |-> ins, xs |-> xs]

\* The end of btc_tx_read: the flags left must be 0, a transaction without
\* inputs must have no outputs, and the locktime follows.
TxReadTail(z, flags, xs) ==
  LET lt == btc_uint32_read(xs)
  IN  IF flags # 0 THEN [ok |-> FALSE, tx |-> z, xs |-> xs]
      ELSE IF Len(z.inputs) = 0 /\ Len(z.outputs) # 0
      THEN [ok |-> FALSE, tx |-> z, xs |-> xs]
      ELSE IF ~lt.ok THEN [ok |-> FALSE, tx |-> z, xs |-> xs]
      ELSE [ok |-> TRUE, tx |-> [z EXCEPT !.locktime = lt.val], xs |-> lt.xs]

\* btc_tx_read after the outputs: if (flags & 1) the witnesses are read and
\* the bit is cleared.
TxReadWitness(z, flags, xs) ==
  LET wit == ReadWitnesses(z.inputs, 1, xs)
  IN  IF flags % 2 = 0 THEN TxReadTail(z, flags, xs)
      ELSE IF ~wit.ok THEN [ok |-> FALSE, tx |-> [z EXCEPT !.inputs = wit.val], xs |-> wit.xs]
      ELSE TxReadTail([z EXCEPT !.inputs = wit.val], flags - 1, wit.xs)

\* btc_tx_read after the inputs.
TxReadOutputs(z, flags, xs) ==
  LET outs == btc_outvec_read(xs)
  IN  IF ~outs.ok THEN [ok |-> FALSE, tx |-> [z EXCEPT !.outputs = outs.val], xs |-> outs.xs]
      ELSE TxReadWitness([z EXCEPT !.outputs = outs.val], flags, outs.xs)

\* btc_tx_read after the version and the marker.
TxReadInputs(z, flags, xs) ==
  LET ins == btc_inpvec_read(xs)
  IN  IF ~ins.ok THEN [ok |-> FALSE, tx |-> [z EXCEPT !.inputs = ins.val], xs |-> ins.xs]
      ELSE TxReadOutputs([z EXCEPT !.inputs = ins.val], flags, ins.xs)

\* btc_tx_read into z: ok, the object as the call leaves it and the bytes
\* left.  A zero byte followed by a byte that is not zero, right after the
\* version, is the marker and the flags.
btc_tx_read(z, xs) ==
  LET v == btc_uint32_read(xs)
  IN  IF ~v.ok THEN [ok |-> FALSE, tx |-> z, xs |-> xs]
      ELSE IF Len(v.xs) >= 2 /\ v.xs[1] = 0 /\ v.xs[2] # 0
      THEN TxReadInputs([z EXCEPT !.version = v.val], v.xs[2], SubSeq(v.xs, 3, Len(v.xs)))
      ELSE TxReadInputs([z EXCEPT !.version = v.val], 0, v.xs)

\* btc_script_remove_separators: the script without its OP_CODESEPARATOR
\* bytes.
RECURSIVE btc_script_remove_separators(_)
btc_script_remove_separators(s) ==
  IF s = <<>> THEN <<>>
  ELSE IF s[1] = OP_CODESEPARATOR THEN btc_script_remove_separators(Tail(s))
  ELSE <<s[1]>> \o btc_script_remove_separators(Tail(s))

\* items[k] of a vector, k counted from 0; a read past the end yields g.
At(items, k, g) == IF k < Len(items) THEN items[k + 1] ELSE g

\* The 32-byte value 01 00 .. 00.
OneHash == [raw |-> TRUE, bytes |-> [i \in 1..32 |-> IF i = 1 THEN 1 ELSE 0]]

\* As SingleBug, letting the index one past the last output through.
SingleBug_OffByOne(type, idx, nout) ==
  type % 32 = BTC_SIGHASH_SINGLE /\ idx > nout

\* The test at the head of btc_tx_sighash_v0.
SingleBug(type, idx, nout) ==
  type % 32 = BTC_SIGHASH_SINGLE /\ idx >= nout

\* As OtherSequence, hashing the sequence of the input whatever the type.
OtherSequence_Kept(base, sequence) == sequence

\* The sequence btc_tx_sighash_v0 hashes for an input other than the one
\* signed: 0 if NONE or SINGLE.
OtherSequence(base, sequence) ==
  IF base \in {BTC_SIGHASH_NONE, BTC_SIGHASH_SINGLE} THEN 0 ELSE sequence

\* btc_tx_sighash_v0: the digest, and the elements of tx->inputs and
\* tx->outputs read on the way (reads).  g is what a read past the end of
\* either vector yields.
btc_tx_sighash_v0(tx, idx, prev_, type, g) ==
  LET prev == btc_script_remove_separators(prev_)
      base == type % 32
      acp  == (type \div BTC_SIGHASH_ANYONECANPAY) % 2 = 1
      cur  == At(tx.inputs, idx, g.input)
      InputBytes(i) ==
        btc_outpoint_write(tx.inputs[i].prevout)
          \o (IF i - 1 = idx
              THEN btc_script_write(prev) \o btc_uint32_write(tx.inputs[i].sequence)
              ELSE btc_size_write(0)
                     \o btc_uint32_write(OtherSequence(base, tx.inputs[i].sequence)))
      ins  == IF acp
              THEN btc_size_write(1) \o btc_outpoint_write(cur.prevout)
                     \o btc_script_write(prev) \o btc_uint32_write(cur.sequence)
              ELSE btc_size_write(Len(tx.inputs))
                     \o Flatten([i \in 1..Len(tx.inputs) |-> InputBytes(i)])
      outs == IF base = BTC_SIGHASH_NONE THEN btc_size_write(0)
              ELSE IF base = BTC_SIGHASH_SINGLE
              THEN btc_size_write(idx + 1)
                     \o Flatten([i \in 1..idx |-> [b \in 1..8 |-> 255] \o btc_size_write(0)])
                     \o btc_output_write(At(tx.outputs, idx, g.output))
              ELSE btc_outvec_write(tx.outputs)
      inReads  == IF acp THEN {<<"input", idx>>}
                  ELSE {<<"input", k>> : k \in 0..(Len(tx.inputs) - 1)}
      outReads == IF base = BTC_SIGHASH_NONE THEN {}
                  ELSE IF base = BTC_SIGHASH_SINGLE THEN {<<"output", idx>>}
                  ELSE {<<"output", k>> : k \in 0..(Len(tx.outputs) - 1)}
  IN  IF SingleBug(type, idx, Len(tx.outputs))
      THEN [hash |-> OneHash, reads |-> {}]
      ELSE [hash |-> btc_hash256(btc_uint32_write(tx.version) \o ins \o outs
                                   \o btc_uint32_write(tx.locktime)
                                   \o btc_uint32_write(type)),
            reads |-> inReads \cup outReads]

\* 32 zero bytes, as memset leaves a hash buffer.
ZeroHash == [raw |-> TRUE, bytes |-> [i \in 1..32 |-> 0]]

\* memset(&cache, 0, sizeof(cache)) of btc_tx_verify.
FreshCache ==
  [has_prevouts |-> FALSE, prevouts |-> ZeroHash,
   has_sequences |-> FALSE, sequences |-> ZeroHash,
   has_outputs |-> FALSE, outputs |-> ZeroHash]

\* As CacheHit, taking the slot of any cache given.
CacheHit_Always(cached, has) == cached

\* cache != NULL && cache->has_...
CacheHit(cached, has) == cached /\ has

\* As HashesSequences, looking at ANYONECANPAY and SINGLE only.
HashesSequences_None(type) ==
  /\ (type \div BTC_SIGHASH_ANYONECANPAY) % 2 = 0
  /\ type % 32 # BTC_SIGHASH_SINGLE

\* The test of btc_tx_sighash_v1 before it hashes the sequences.
HashesSequences(type) ==
  /\ (type \div BTC_SIGHASH_ANYONECANPAY) % 2 = 0
  /\ type % 32 # BTC_SIGHASH_SINGLE
  /\ type % 32 # BTC_SIGHASH_NONE

\* btc_tx_sighash_v1 for an index below tx->inputs.length: the digest, the
\* three hashes it is made of, which of them it took from the cache (hits)
\* and the cache as the call leaves it.  cached is cache != NULL, c the
\* cache.  The bytes hashed for the digest are kept by field.
btc_tx_sighash_v1(tx, idx, prev, value, type, cached, c) ==
  LET base == type % 32
      acp  == (type \div BTC_SIGHASH_ANYONECANPAY) % 2 = 1
      all  == base # BTC_SIGHASH_SINGLE /\ base # BTC_SIGHASH_NONE
      hitP == ~acp /\ CacheHit(cached, c.has_prevouts)
      hitS == HashesSequences(type) /\ CacheHit(cached, c.has_sequences)
      hitO == all /\ CacheHit(cached, c.has_outputs)
      prevouts ==
        IF acp THEN ZeroHash
        ELSE IF hitP THEN c.prevouts
        ELSE btc_hash256(Flatten([i \in 1..Len(tx.inputs) |->
                                    btc_outpoint_write(tx.inputs[i].prevout)]))
      sequences ==
        IF ~HashesSequences(type) THEN ZeroHash
        ELSE IF hitS THEN c.sequences
        ELSE btc_hash256(Flatten([i \in 1..Len(tx.inputs) |->
                                    btc_uint32_write(tx.inputs[i].sequence)]))
      outputs ==
        IF all
        THEN IF hitO THEN c.outputs
             ELSE btc_hash256(Flatten([i \in 1..Len(tx.outputs) |->
                                         btc_output_write(tx.outputs[i])]))
        ELSE IF base = BTC_SIGHASH_SINGLE /\ idx < Len(tx.outputs)
        THEN btc_hash256(btc_output_write(tx.outputs[idx + 1]))
        ELSE ZeroHash
      c1 == IF cached /\ ~acp /\ ~hitP
            THEN [c EXCEPT !.prevouts = prevouts, !.has_prevouts = TRUE] ELSE c
      c2 == IF cached /\ HashesSequences(type) /\ ~hitS
            THEN [c1 EXCEPT !.sequences = sequences, !.has_sequences = TRUE] ELSE c1
      c3 == IF cached /\ all /\ ~hitO
            THEN [c2 EXCEPT !.outputs = outputs, !.has_outputs = TRUE] ELSE c2
  IN  [hash |-> btc_hash256([version |-> btc_uint32_write(tx.version),
                             prevouts |-> prevouts,
                             sequences |-> sequences,
                             outpoint |-> btc_outpoint_write(tx.inputs[idx + 1].prevout),
                             script |-> btc_script_write(prev),
                             value |-> btc_int64_write(value),
                             sequence |-> btc_uint32_write(tx.inputs[idx + 1].sequence),
                             outputs |-> outputs,
                             locktime |-> btc_uint32_write(tx.locktime),
                             type |-> btc_uint32_write(type)]),
       prevouts |-> prevouts, sequences |-> sequences, outputs |-> outputs,
       hits |-> {<<"prevouts", hitP>>, <<"sequences", hitS>>, <<"outputs", hitO>>},
       cache |-> c3]

(***************************************************************************)
(* TxEngine: sanity and input checks.  The result of a check is the value  *)
(* returned and the message and score THROW sets in the caller's error     *)
(* (as the caller left them, "" and 0, when the check returns 1); ub is    *)
(* TRUE when a signed addition or subtraction left the range of int64_t    *)
(* on the way, and the rest of the result is then what the build made of   *)
(* it.                                                                     *)
(***************************************************************************)
\* btc_outpoint_is_null: the zero hash and the index 0xffffffff.
btc_outpoint_is_null(p) == p.hash = 0 /\ p.index = -1

\* btc_tx_is_coinbase.
btc_tx_is_coinbase(tx) ==
  IF Len(tx.inputs) # 1 THEN FALSE ELSE btc_outpoint_is_null(tx.inputs[1].prevout)

\* btc_tx_base_size: the sizes of the two vectors are the lengths of what
\* their writers emit.
btc_tx_base_size(tx) ==
  4 + Len(btc_inpvec_write(tx.inputs)) + Len(btc_outvec_write(tx.outputs)) + 4

\* btc_tx_has_duplicate_inputs: kh_put finds the outpoint of some input in
\* the set of those before it.
btc_tx_has_duplicate_inputs(tx) ==
  \E i \in 1..Len(tx.inputs) :
    tx.inputs[i].prevout \in {tx.inputs[j].prevout : j \in 1..(i - 1)}

\* a + b leaves the range of int64_t.
Overflows(a, b) ==
  \/ b > 0 /\ a > 2147483647 - b
  \/ b < 0 /\ a < (-2147483647 - 1) - b

THROW(m, s) == [ret |-> 0, msg |-> m, score |-> s, ub |-> FALSE]

\* return 1: the error is not written.
Passed == [ret |-> 1, msg |-> "", score |-> 0, ub |-> FALSE]

\* As BadCoinbaseLength, with both limits one inside.
BadCoinbaseLength_Inside(size) == size <= 2 \/ size >= 100

\* The test on the length of a coinbase's input script.
BadCoinbaseLength(size) == size < 2 \/ size > 100

\* The loop of btc_tx_check_sanity over the outputs, from output i on with
\* the running total at total: the message thrown, "" when the loop ends.
RECURSIVE SaneOutputs(_, _, _)
SaneOutputs(outs, i, total) ==
  IF i > Len(outs) THEN [msg |-> "", ub |-> FALSE]
  ELSE IF outs[i].value < 0 THEN [msg |-> "bad-txns-vout-negative", ub |-> FALSE]
  ELSE IF outs[i].value > BTC_MAX_MONEY
  THEN [msg |-> "bad-txns-vout-toolarge", ub |-> FALSE]
  ELSE IF Overflows(total, outs[i].value) THEN [msg |-> "", ub |-> TRUE]
  ELSE IF total + outs[i].value < 0 \/ total + outs[i].value > BTC_MAX_MONEY
  THEN [msg |-> "bad-txns-txouttotal-toolarge", ub |-> FALSE]
  ELSE SaneOutputs(outs, i + 1, total + outs[i].value)

\* btc_tx_check_sanity.  g is the result when the behaviour is undefined.
btc_tx_check_sanity(tx, g) ==
  LET outs == SaneOutputs(tx.outputs, 1, 0)
  IN  IF Len(tx.inputs) = 0 THEN THROW("bad-txns-vin-empty", 100)
      ELSE IF Len(tx.outputs) = 0 THEN THROW("bad-txns-vout-empty", 100)
      ELSE IF btc_tx_base_size(tx) > BTC_MAX_BLOCK_SIZE
      THEN THROW("bad-txns-oversize", 100)
      ELSE IF outs.ub THEN [g EXCEPT !.ub = TRUE]
      ELSE IF outs.msg # "" THEN THROW(outs.msg, 100)
      ELSE IF btc_tx_has_duplicate_inputs(tx)
      THEN THROW("bad-txns-inputs-duplicate", 100)
      ELSE IF btc_tx_is_coinbase(tx)
      THEN IF BadCoinbaseLength(Len(tx.inputs[1].script))
           THEN THROW("bad-cb-length", 100)
           ELSE Passed
      ELSE IF \E i \in 1..Len(tx.inputs) : btc_outpoint_is_null(tx.inputs[i].prevout)
      THEN THROW("bad-txns-prevout-null", 10)
      ELSE Passed

\* a - b leaves the range of int64_t.
Underflows(a, b) ==
  \/ b < 0 /\ a > 2147483647 + b
  \/ b > 0 /\ a < (-2147483647 - 1) + b

\* btc_tx_output_value from output i on: the total, and whether an addition
\* left the range of int64_t.
RECURSIVE OutputValueFrom(_, _, _)
OutputValueFrom(outs, i, total) ==
  IF i > Len(outs) THEN [total |-> total, ub |-> FALSE]
  ELSE IF Overflows(total, outs[i].value) THEN [total |-> total, ub |-> TRUE]
  ELSE OutputValueFrom(outs, i + 1, total + outs[i].value)

btc_tx_output_value(tx) == OutputValueFrom(tx.outputs, 1, 0)

\* As Immature, counting the block of the coin as a confirmation.
Immature_Inclusive(height, c) ==
  c.coinbase /\ height - c.height + 1 < BTC_COINBASE_MATURITY

\* The test of btc_check_inputs on a coinbase coin.
Immature(height, c) ==
  c.coinbase /\ height - c.height < BTC_COINBASE_MATURITY

\* The loop of btc_check_inputs from input i on with the running total at
\* total: what it throws (Passed when it ends) and the total.  A view is
\* the function from the outpoints it holds to their coins; btc_view_get
\* returns NULL for any other outpoint.  ret is -1 when
\* CHECK(height >= coin->height) ends the process.
RECURSIVE CheckInputsFrom(_, _, _, _, _)
CheckInputsFrom(ins, view, height, i, total) ==
  IF i > Len(ins) THEN [err |-> Passed, total |-> total]
  ELSE IF ins[i].prevout \notin DOMAIN view
  THEN [err |-> THROW("bad-txns-inputs-missingorspent", 0), total |-> total]
  ELSE LET c == view[ins[i].prevout]
       IN  IF c.coinbase /\ height < c.height
           THEN [err |-> [THROW("", 0) EXCEPT !.ret = -1], total |-> total]
           ELSE IF Immature(height, c)
           THEN [err |-> THROW("bad-txns-premature-spend-of-coinbase", 0), total |-> total]
           ELSE IF c.output.value < 0 \/ c.output.value > BTC_MAX_MONEY
           THEN [err |-> THROW("bad-txns-inputvalues-outofrange", 100), total |-> total]
           ELSE IF Overflows(total, c.output.value)
           THEN [err |-> [Passed EXCEPT !.ub = TRUE], total |-> total]
           ELSE IF total + c.output.value < 0 \/ total + c.output.value > BTC_MAX_MONEY
           THEN [err |-> THROW("bad-txns-inputvalues-outofrange", 100), total |-> total]
           ELSE CheckInputsFrom(ins, view, height, i + 1, total + c.output.value)

\* btc_check_inputs.  g is the result when the behaviour is undefined.
btc_check_inputs(tx, view, height, g) ==
  LET loop  == CheckInputsFrom(tx.inputs, view, height, 1, 0)
      total == loop.total
      value == btc_tx_output_value(tx)
  IN  IF loop.err.ub THEN [g EXCEPT !.ub = TRUE]
      ELSE IF loop.err.ret # 1 THEN loop.err
      ELSE IF value.ub THEN [g EXCEPT !.ub = TRUE]
      ELSE IF total < value.total THEN THROW("bad-txns-in-belowout", 100)
      ELSE IF Underflows(total, value.total) THEN [g EXCEPT !.ub = TRUE]
      ELSE IF total - value.total < 0 THEN THROW("bad-txns-fee-negative", 100)
      ELSE IF total - value.total > BTC_MAX_MONEY
      THEN THROW("bad-txns-fee-outofrange", 100)
      ELSE Passed

(***************************************************************************)
(* TxEngine: the transactions and calls considered.                        *)
(***************************************************************************)
\* Candidate inputs: without a witness, with a witness of one item, with a
\* witness of two items one of which is empty.
InputPool ==
  { [prevout |-> [hash |-> 7, index |-> 0], script |-> <<>>,
     witness |-> <<>>, sequence |-> 0],
    [prevout |-> [hash |-> 8, index |-> 1], script |-> <<81>>,
     witness |-> << <<5>> >>, sequence |-> 2147483647],
    [prevout |-> [hash |-> 0, index |-> 2], script |-> <<171, 81>>,
     witness |-> << <<>>, <<6, 7>> >>, sequence |-> 1] }

OutputPool ==
  { [value |-> 0, script |-> <<>>], [value |-> 50, script |-> <<81, 135>>] }

\* The sequences over S of length at most n.
SeqsUpTo(S, n) == UNION {[1..k -> S] : k \in 0..n}

TxUniverse ==
  { [version |-> 1, inputs |-> ins, outputs |-> outs, locktime |-> 0] :
      ins \in SeqsUpTo(InputPool, MaxInputs), outs \in SeqsUpTo(OutputPool, MaxOutputs) }

SighashTypes == {1, 2, 3, 35, 129, 131, 227}
PrevScripts == {<<>>, <<171, 118, 171>>}
\* Sighash types of the computations that share a cache.
CachedTypes == {1, 2, 3, 129, 163}

\* A coinbase input with a script of n bytes.
NullInput(n) ==
  [prevout |-> [hash |-> 0, index |-> -1], script |-> [i \in 1..n |-> 0],
   witness |-> <<>>, sequence |-> -1]

\* Transactions handed to the checks, besides those of TxUniverse: with
\* amounts at and around the limits, coinbases with scripts around the
\* limits of 2 and 100 bytes, a null prevout beside another input, an input
\* twice, and outputs whose script brings the base size to
\* BTC_MAX_BLOCK_SIZE and one byte above.
CheckedTxs ==
  LET a     == CHOOSE i \in InputPool : i.prevout.hash = 7
      b     == CHOOSE i \in InputPool : i.prevout.hash = 8
      ins   == {<<>>, <<a>>, <<a, b>>, <<a, a>>, <<a, NullInput(2)>>,
                <<NullInput(2), NullInput(2)>>}
                 \cup {<<NullInput(n)>> : n \in {0, 1, 2, 3, 99, 100, 101}}
      amts  == {-2147483647 - 1, -1, 0, 1, BTC_MAX_MONEY - 1, BTC_MAX_MONEY,
                BTC_MAX_MONEY + 1, 2147483647}
      pays  == {[value |-> v, script |-> <<>>] : v \in amts}
      big   == {[value |-> 1, script |-> [i \in 1..n |-> 0]] :
                  n \in {BTC_MAX_BLOCK_SIZE - 64, BTC_MAX_BLOCK_SIZE - 63}}
      one   == CHOOSE o \in pays : o.value = 1
      Tx(i, o) == [version |-> 1, inputs |-> i, outputs |-> o, locktime |-> 0]
  IN  {Tx(i, <<one>>) : i \in ins}
        \cup {Tx(i, o) : i \in {<<a>>, <<a, NullInput(2)>>}, o \in SeqsUpTo(pays, 2)}
        \cup {Tx(<<a>>, <<o>>) : o \in big}

\* The coins a view may hold for an outpoint: of a coinbase or not, with an
\* amount at and around the limits.
CoinPool ==
  {[output |-> [value |-> v, script |-> <<>>], coinbase |-> FALSE, height |-> 1] :
     v \in {-1, 50, BTC_MAX_MONEY, BTC_MAX_MONEY + 1}}
    \cup {[output |-> [value |-> 50, script |-> <<>>], coinbase |-> TRUE, height |-> 1]}

\* The views handed to btc_check_inputs with the transaction t: for each
\* outpoint of t a coin or none.
Views(t) ==
  LET outpoints == {t.inputs[i].prevout : i \in 1..Len(t.inputs)}
  IN  UNION {[held -> CoinPool] : held \in SUBSET outpoints}

\* The heights of the block the transaction is checked for: 99 and 100
\* above the coins of CoinPool.
CheckHeights == {BTC_COINBASE_MATURITY, BTC_COINBASE_MATURITY + 1}

\* What the build may make of a check whose behaviour is undefined.
CheckGarbage == {Passed, THROW("", 100)}

\* What a read past the end of tx->inputs or tx->outputs may yield.
SighashGarbage(t, idx, type) ==
  IF SingleBug(type, idx, Len(t.outputs)) \/ idx < Len(t.inputs)
  THEN {[input |-> CHOOSE i \in InputPool : TRUE, output |-> CHOOSE o \in OutputPool : TRUE]}
  ELSE {[input |-> i, output |-> o] : i \in InputPool, o \in OutputPool}

\* No call made yet: the hash buffers hold 32 zero bytes.
TxNoOp ==
  [op |-> "none", ok |-> TRUE, bytes |-> <<>>, out |-> btc_tx_init,
   index |-> 0, type |-> 0, hash |-> ZeroHash, alt |-> ZeroHash, reads |-> {},
   err |-> Passed, view |-> <<>>, height |-> 0, prev |-> <<>>, value |-> 0,
   parts |-> <<>>]

(***************************************************************************)
(* CompactBlockCodec (src/bip152.c).                                       *)
(* A vector of transaction pointers (avail) is its length and the items    *)
(* that are not NULL, by position counted from 0.  A prefilled transaction *)
(* is the transaction and its _index.  id_map is the set of the pairs      *)
(* <<short id, position>> it holds.                                        *)
(***************************************************************************)
\* btc_cmpct_init.
btc_cmpct_init ==
  [header |-> 0, key_nonce |-> 0, ids |-> <<>>, ptx |-> <<>>,
   avail |-> [length |-> 0, items |-> <<>>], id_map |-> {}, count |-> 0]

RECURSIVE SumBytes(_)
SumBytes(b) == IF b = <<>> THEN 0 ELSE b[1] + SumBytes(Tail(b))

\* btc_cmpct_key and btc_siphash_sum: a keyed fingerprint of the hash in a
\* space of SidSpace values (48 bits in the program), so that fingerprints
\* of different hashes may collide under one key and differ under another.
btc_siphash_sum(hash, header, key_nonce) ==
  ((SumBytes(hash.bytes) + header) \div (key_nonce + 1)) % SidSpace

\* btc_cmpct_sid.
btc_cmpct_sid(blk, hash) == btc_siphash_sum(hash, blk.header, blk.key_nonce)

\* btc_cmpct_set_block on an object fresh from btc_cmpct_init; nonce is the
\* value drawn from btc_random.
btc_cmpct_set_block(z, x, witness, nonce) ==
  LET keyed == [z EXCEPT !.header = x.header, !.key_nonce = nonce]
  IN  [keyed EXCEPT
         !.ids = [i \in 1..(Len(x.txs) - 1) |->
                    btc_cmpct_sid(keyed, IF witness THEN btc_tx_wtxid(x.txs[i + 1])
                                         ELSE btc_tx_txid(x.txs[i + 1]))],
         !.ptx = <<[tx |-> x.txs[1], index |-> 0]>>]

\* As TooMany, without the limit of 60 bytes per transaction.
TooMany_NoCustomLimit(total) ==
  total = 0 \/ total > BTC_MAX_BLOCK_SIZE \div 10

\* The size checks of btc_cmpct_setup.
TooMany(total) ==
  \/ total = 0
  \/ total > BTC_MAX_BLOCK_SIZE \div 10
  \/ total > (BTC_MAX_BLOCK_SIZE - 81) \div 60

\* As Unplaceable, refusing the position ids.length + i as well.
Unplaceable_Strict(cursor, nids, i) ==
  cursor < 0 \/ cursor > 65535 \/ cursor >= nids + i

\* The checks of btc_cmpct_setup on the cursor of prefilled transaction i
\* (counted from 0).
Unplaceable(cursor, nids, i) ==
  cursor < 0 \/ cursor > 65535 \/ cursor > nids + i

\* The loop of btc_cmpct_setup over the prefilled transactions from i
\* (counted from 1) on, with the cursor at cursor.
RECURSIVE PlacePrefilled(_, _, _)
PlacePrefilled(blk, i, cursor) ==
  IF i > Len(blk.ptx) THEN [ok |-> TRUE, blk |-> blk]
  ELSE LET at == cursor + blk.ptx[i].index + 1
       IN  IF Unplaceable(at, Len(blk.ids), i - 1) THEN [ok |-> FALSE, blk |-> blk]
           ELSE PlacePrefilled(
                  [blk EXCEPT !.avail.items =
                                 [p \in DOMAIN @ \cup {at} |->
                                    IF p = at THEN blk.ptx[i].tx ELSE @[p]],
                              !.count = @ + 1],
                  i + 1, at)

\* As EmptySlot, with a cursor that does not skip the filled slots.
EmptySlot_NoSkip(filled, k) == k

\* The position the loops over the slots of avail reach for the k-th
\* (counted from 0) slot that is NULL, given the set of the filled slots.
EmptySlot(filled, k) ==
  CHOOSE s \in k..(k + Cardinality(filled)) :
    s \notin filled /\ Cardinality({f \in filled : f < s}) = s - k

\* As PutFails, with a table that replaces the value of a key it holds.
PutFails_Replace(seen, id) == FALSE

\* btc_longtab_put fails when the table holds the key.
PutFails(seen, id) == id \in seen

\* The ids that btc_cmpct_setup puts before its loop ends: all of them, or
\* those before the first one whose put fails.
IdsPut(ids) ==
  LET bad == {j \in 1..Len(ids) : PutFails({ids[i] : i \in 1..(j - 1)}, ids[j])}
  IN  IF Cardinality({ids[i] : i \in 1..Len(ids)}) = Len(ids) THEN Len(ids)
      ELSE IF bad = {} THEN Len(ids)
      ELSE (CHOOSE j \in bad : \A k \in bad : j <= k) - 1

\* btc_cmpct_setup on an object whose avail is empty and count is 0: the
\* value returned and the object as the call leaves it.
btc_cmpct_setup(blk) ==
  LET total  == Len(blk.ptx) + Len(blk.ids)
      sized  == [blk EXCEPT !.avail = [length |-> total, items |-> <<>>]]
      placed == PlacePrefilled(sized, 1, -1)
      filled == DOMAIN placed.blk.avail.items
      n      == IdsPut(blk.ids)
      mapped == [placed.blk EXCEPT
                   !.id_map = {<<blk.ids[i], EmptySlot(filled, i - 1)>> : i \in 1..n}]
  IN  IF TooMany(total) THEN [ret |-> -1, blk |-> blk]
      ELSE IF ~placed.ok THEN [ret |-> -1, blk |-> placed.blk]
      ELSE [ret |-> IF n < Len(blk.ids) THEN 0 ELSE 1, blk |-> mapped]

\* As CountAfter, counting the call and not the slots it filled.
CountAfter_Call(count, n) == count + 1

\* blk->count after the loop of btc_cmpct_fill_missing has filled n slots.
CountAfter(count, n) == count + n

\* As btc_cmpct_fill_missing, returning 1 as soon as every slot is filled.
btc_cmpct_fill_missing_Surplus(blk, msg) ==
  LET filled == DOMAIN blk.avail.items
      need   == blk.avail.length - Cardinality(filled)
      given  == Len(msg.txs)
      n      == IF given < need THEN given ELSE need
      slots  == {EmptySlot(filled, k) : k \in 0..(n - 1)}
      after  == [blk EXCEPT
                   !.avail.items =
                      [p \in filled \cup slots |->
                         IF p \in filled THEN @[p]
                         ELSE msg.txs[1 + CHOOSE k \in 0..(n - 1) : EmptySlot(filled, k) = p]],
                   !.count = @ + n]
  IN  [ret |-> IF need > given THEN 0 ELSE 1, blk |-> after]

\* btc_cmpct_fill_missing on an object whose avail has total slots: the
\* value returned and the object as the call leaves it.
btc_cmpct_fill_missing(blk, msg) ==
  LET filled == DOMAIN blk.avail.items
      need   == blk.avail.length - Cardinality(filled)
      given  == Len(msg.txs)
      n      == IF given < need THEN given ELSE need
      slots  == {EmptySlot(filled, k) : k \in 0..(n - 1)}
      after  == [blk EXCEPT
                   !.avail.items =
                      [p \in filled \cup slots |->
                         IF p \in filled THEN @[p]
                         ELSE msg.txs[1 + CHOOSE k \in 0..(n - 1) : EmptySlot(filled, k) = p]],
                   !.count = CountAfter(@, n)]
  IN  IF need > given THEN [ret |-> 0, blk |-> after]
      ELSE [ret |-> IF given = need THEN 1 ELSE 0, blk |-> after]

\* btc_cmpct_finalize into a block without transactions: the block, and the
\* object with its slots handed over.  aborted when a CHECK fails.
btc_cmpct_finalize(x) ==
  LET total == Len(x.ptx) + Len(x.ids)
  IN  IF x.avail.length # total \/ x.count # total
         \/ \E i \in 0..(x.avail.length - 1) : i \notin DOMAIN x.avail.items
      THEN [aborted |-> TRUE, block |-> [header |-> 0, txs |-> <<>>], blk |-> x]
      ELSE [aborted |-> FALSE,
            block |-> [header |-> x.header,
                       txs |-> [i \in 1..x.avail.length |-> x.avail.items[i - 1]]],
            blk |-> [x EXCEPT !.avail.items = <<>>]]

\* btc_getblocktxn_init.
btc_getblocktxn_init == [hash |-> 0, indexes |-> <<>>]

\* As btc_getblocktxn_set_cmpct, listing the filled slots as well.
btc_getblocktxn_set_cmpct_All(z, x) ==
  [z EXCEPT !.hash = x.header,
            !.indexes = [k \in 1..x.avail.length |-> k - 1]]

\* btc_getblocktxn_set_cmpct into a request without indexes.
btc_getblocktxn_set_cmpct(z, x) ==
  LET filled == DOMAIN x.avail.items
      need   == Cardinality({i \in 0..(x.avail.length - 1) : i \notin filled})
  IN  [z EXCEPT !.hash = x.header,
                !.indexes = [k \in 1..need |-> EmptySlot(filled, k - 1)]]

\* The value btc_getblocktxn_write passes to btc_size_write for item i
\* (counted from 1) of a strictly increasing list.
IndexDelta(indexes, i) ==
  IF i = 1 THEN indexes[1] ELSE indexes[i] - (indexes[i - 1] + 1)

\* btc_getblocktxn_write.
btc_getblocktxn_write(x) ==
  Hash32(x.hash) \o btc_size_write(Len(x.indexes))
    \o Flatten([i \in 1..Len(x.indexes) |-> btc_size_write(IndexDelta(x.indexes, i))])

\* The first loop of btc_getblocktxn_read: n compact sizes, none above
\* 0xffff, pushed onto the indexes.
RECURSIVE ReadIndexes(_, _, _)
ReadIndexes(n, xs, acc) ==
  IF n = 0 THEN [ok |-> TRUE, val |-> acc, xs |-> xs]
  ELSE LET r == btc_size_read(xs)
       IN  IF r.ok /\ r.val <= 65535 THEN ReadIndexes(n - 1, r.xs, Append(acc, r.val))
           ELSE [ok |-> FALSE, val |-> acc, xs |-> xs]

\* As Absolute, without the offset of one between neighbours.
Absolute_NoOffset(delta, offset) == delta + offset - (IF offset > 0 THEN 1 ELSE 0)

\* index += offset in the second loop of btc_getblocktxn_read.
Absolute(delta, offset) == delta + offset

\* The second loop of btc_getblocktxn_read from item i on.
RECURSIVE Undelta(_, _, _)
Undelta(indexes, i, offset) ==
  IF i > Len(indexes) THEN [ok |-> TRUE, val |-> indexes]
  ELSE LET idx == Absolute(indexes[i], offset)
       IN  IF idx > 65535 THEN [ok |-> FALSE, val |-> indexes]
           ELSE Undelta([indexes EXCEPT ![i] = idx], i + 1, idx + 1)

\* btc_getblocktxn_read into a request without indexes: ok, the object as
\* the call leaves it and the bytes left.
btc_getblocktxn_read(z, xs) ==
  LET h     == btc_raw_read(xs, 32)
      count == btc_size_read(h.xs)
      raw   == ReadIndexes(count.val, count.xs, <<>>)
      abs   == Undelta(raw.val, 1, 0)
      z1    == [z EXCEPT !.hash = h.val[1]]
  IN  IF ~h.ok THEN [ok |-> FALSE, req |-> z, xs |-> xs]
      ELSE IF ~count.ok THEN [ok |-> FALSE, req |-> z1, xs |-> h.xs]
      ELSE IF ~raw.ok THEN [ok |-> FALSE, req |-> [z1 EXCEPT !.indexes = raw.val], xs |-> raw.xs]
      ELSE [ok |-> abs.ok, req |-> [z1 EXCEPT !.indexes = abs.val], xs |-> raw.xs]

\* btc_blocktxn_init.
btc_blocktxn_init == [hash |-> 0, txs |-> <<>>]

\* As btc_blocktxn_set_block, stopping at the last position of the block
\* as well.
btc_blocktxn_set_block_SkipLast(res, b, req) ==
  LET bad == {i \in 1..Len(req.indexes) : req.indexes[i] + 1 >= Len(b.txs)}
      n   == IF bad = {} THEN Len(req.indexes)
             ELSE (CHOOSE i \in bad : \A k \in bad : i <= k) - 1
  IN  [res EXCEPT !.hash = b.header,
                  !.txs = [i \in 1..n |-> b.txs[req.indexes[i] + 1]]]

\* btc_blocktxn_set_block into a response without transactions: the loop
\* stops at the first index that is not a position of the block.
btc_blocktxn_set_block(res, b, req) ==
  LET bad == {i \in 1..Len(req.indexes) : req.indexes[i] >= Len(b.txs)}
      n   == IF bad = {} THEN Len(req.indexes)
             ELSE (CHOOSE i \in bad : \A k \in bad : i <= k) - 1
  IN  [res EXCEPT !.hash = b.header,
                  !.txs = [i \in 1..n |-> b.txs[req.indexes[i] + 1]]]

TxIdle == curtx = btc_tx_init /\ txop = TxNoOp /\ cache = FreshCache

CmpctNoOp ==
  [op |-> "init", ret |-> 0, rt |-> FALSE, need |-> 0, given |-> 0,
   ok |-> TRUE, bytes |-> <<>>, sent |-> <<>>, out |-> <<>>]

\* Objects fresh from their init, blocks without transactions.
CmpctIdle ==
  /\ cmpct = btc_cmpct_init
  /\ peer = [header |-> 0, txs |-> <<>>]
  /\ getblocktxn = btc_getblocktxn_init
  /\ blocktxn = btc_blocktxn_init
  /\ zblock = [header |-> 0, txs |-> <<>>]
  /\ cop = CmpctNoOp

(***************************************************************************)
(* ChainStore: history.                                                    *)
(***************************************************************************)
Call(op, e, withView) ==
  [op |-> op, e |-> e, withView |-> withView, res |-> "",
   pre |-> IF op \in {"save", "reconnect"} THEN coin ELSE <<>>]


ChainAfter(call, res, created) ==
  IF call.op = "open" /\ res = "ok" /\ created /\ chain.only /\ chain.seq = <<>>
  THEN [only |-> TRUE, seq |-> <<call.e>>]
  ELSE IF call.op = "save" /\ call.withView /\ res = "ok" /\ chain.only
  THEN [only |-> TRUE, seq |-> Append(chain.seq, call.e)]
  ELSE [only |-> FALSE, seq |-> <<>>]

\* The process before btc_ps_onterm: global_handler is NULL, the signals
\* have their default disposition, nothing was sent.
PsIdle ==
  [handler |-> FALSE, installed |-> FALSE, pending |-> {}, frames |-> <<>>,
   sent |-> 0, calls |-> 0]

\* No call is between its commit and its return, no reader has looked.
WriterIdle ==
  [todo |-> <<>>, call |-> [op |-> "none"], pre |-> <<>>, post |-> <<>>, seen |-> <<>>]

(***************************************************************************)
(* Actions.                                                                *)
(***************************************************************************)
\* The state a call that ended as r leaves.  A process that is gone leaves
\* no volatile state.
Finish(r, call, fault, created) ==
  LET alive == r.res \in {"ok", "fail"}
  IN  /\ metaF' = r.metaF
      /\ metaR' = r.metaR
      /\ coin' = r.coin
      /\ index' = r.index
      /\ tip' = r.tip
      /\ fsize' = r.fsize
      /\ frecs' = r.frecs
      /\ up' = alive
      /\ file' = IF alive THEN r.file ELSE 0
      /\ pos' = IF alive THEN r.pos ELSE 0
      /\ hashes' = IF alive THEN r.hashes ELSE {}
      /\ heights' = IF alive THEN r.heights ELSE <<>>
      /\ head' = IF alive THEN r.head ELSE NoEntry
      /\ tail' = IF alive THEN r.tail ELSE NoEntry
      /\ ent' = IF alive THEN r.ent ELSE FreshEntries
      /\ last' = [call EXCEPT !.res = r.res]
      /\ chain' = ChainAfter(call, r.res, created)
      /\ nfaults' = IF fault # "none" /\ r.res # "ok" THEN nfaults + 1 ELSE nfaults
      /\ rd' = IF alive THEN rd ELSE SpendIdle
      /\ wr' = wr
      /\ UNCHANGED <<txvars, cmpctvars, psvars>>

ChainInit ==
  /\ metaF = <<>>
  /\ metaR = NoEntry
  /\ coin = <<>>
  /\ index = <<>>
  /\ tip = {}
  /\ fsize = <<>>
  /\ frecs = {}
  /\ up = FALSE
  /\ file = 0
  /\ pos = 0
  /\ hashes = {}
  /\ heights = <<>>
  /\ head = NoEntry
  /\ tail = NoEntry
  /\ ent = FreshEntries
  /\ last = [op |-> "create", e |-> NoEntry, withView |-> FALSE, res |-> "ok",
             pre |-> <<>>]
  /\ chain = [only |-> TRUE, seq |-> <<>>]
  /\ nfaults = 0
  /\ rd = SpendIdle
  /\ wr = WriterIdle
  /\ ps = PsIdle

Init == ChainInit /\ TxIdle /\ CmpctIdle

\* btc_chaindb_open (with btc_chaindb_new when the store has no tip yet).
\* A CHECK that fails ends the process.
btc_chaindb_open(fault, part) ==
  LET f  == IF metaF = <<>> THEN 0 ELSE read32le(SubSeq(metaF, 1, 4))
      p  == IF metaF = <<>> THEN 0 ELSE read32le(SubSeq(metaF, 5, 8))
      d  == [Volatile EXCEPT !.file = f, !.pos = p, !.fsize = btc_fs_open(@, f)]
      l  == btc_chaindb_load
      g  == btc_chaindb_save(d, 0, TRUE, btc_view_create, fault, part)
      \* the transaction that opens the sub-databases, then the read-only
      \* one that reads meta['F']
      o  == Ended(Ended(Untouched(d, "ok"), <<"commit">>), <<"abort">>)
  IN  IF d.fsize[f] # p THEN [o EXCEPT !.res = "abort"]
      ELSE IF metaR = NoEntry
      THEN [g EXCEPT !.res = IF @ = "fail" THEN "abort" ELSE @,
                     !.txn = Ended(o, <<"abort">>).txn \o @]
      ELSE IF ~l.ok THEN [Ended(o, <<>>) EXCEPT !.res = "abort"]
      ELSE [Ended(o, <<"abort">>) EXCEPT !.hashes = l.hashes, !.ent = l.ent,
                                         !.heights = l.heights, !.head = l.head,
                                         !.tail = l.tail]

Open(fault, part) ==
  /\ ~up
  /\ fault # "none" => nfaults < MaxFaults
  /\ Finish(btc_chaindb_open(fault, part), Call("open", 0, TRUE), fault,
            metaR = NoEntry)

\* btc_chaindb_close.
Close ==
  /\ up
  /\ Finish(Untouched(Volatile, "closed"), Call("close", tail, FALSE), "none", FALSE)

\* The chain saves a new block: on the main chain (with the view of the
\* block's effect) when it extends the tip, else on a side chain.
SaveCall(e, withView, fault, part) ==
  /\ up
  /\ e \notin hashes
  /\ PrevOf(e) \in hashes
  /\ withView => PrevOf(e) = tail /\ Spendable(e, coin)
  /\ fault # "none" => nfaults < MaxFaults
  /\ Finish(btc_chaindb_save(Volatile, e, withView,
                             IF withView THEN ViewOf(e, coin) ELSE btc_view_create,
                             fault, part),
            Call("save", e, withView), fault, FALSE)

\* The chain connects a block saved earlier on a side chain.
ReconnectCall(e, fault, part) ==
  /\ up
  /\ e \in hashes
  /\ ent[e].prev = tail
  /\ Spendable(e, coin)
  /\ fault # "none" => nfaults < MaxFaults
  /\ Finish(btc_chaindb_reconnect(Volatile, e, ViewOf(e, coin), fault, part),
            Call("reconnect", e, TRUE), fault, FALSE)

\* The chain disconnects the tip.
DisconnectCall(fault, g) ==
  /\ up
  /\ fault # "none" => nfaults < MaxFaults
  /\ Finish(btc_chaindb_disconnect(Volatile, tail, fault, g),
            Call("disconnect", tail, FALSE), fault, FALSE)

Next ==
  \/ \E fault \in Faults : \E part \in Parts(fault) : Open(fault, part)
  \/ Close
  \/ \E e \in Blocks, withView \in BOOLEAN, fault \in Faults :
       \E part \in Parts(fault) : SaveCall(e, withView, fault, part)
  \/ \E e \in Blocks, fault \in Faults : \E part \in Parts(fault) : ReconnectCall(e, fault, part)
  \/ \E fault \in Faults, g \in Garbage(tail) : DisconnectCall(fault, g)

Spec == Init /\ [][Next]_vars

(***************************************************************************)
(* ReorgSpec: the writer with the block without transactions among its      *)
(* blocks.  It saves on the main chain only.                                *)
(***************************************************************************)
ReorgNext ==
  \/ \E fault \in Faults : \E part \in Parts(fault) : Open(fault, part)
  \/ \E e \in Entries, fault \in Faults :
       \E part \in Parts(fault) : SaveCall(e, TRUE, fault, part)
  \/ \E e \in Entries, fault \in Faults :
       \E part \in Parts(fault) : ReconnectCall(e, fault, part)
  \/ \E fault \in Faults, g \in Garbage(tail) : DisconnectCall(fault, g)

ReorgSpec == Init /\ [][ReorgNext]_vars

(***************************************************************************)
(* GraphSpec: the in-memory update that follows a commit, one store at a   *)
(* time, beside a helper thread that reads the Entry graph.                *)
(***************************************************************************)
\* The Entry graph in memory: the hash table, the height vector, head and
\* tail, and the links of the entries.
GraphOf(r) ==
  [hashes |-> r.hashes, heights |-> r.heights, head |-> r.head, tail |-> r.tail,
   links |-> [h \in Entries |-> <<r.ent[h].prev, r.ent[h].next>>]]

Graph ==
  GraphOf([hashes |-> hashes, heights |-> heights, head |-> head, tail |-> tail,
           ent |-> ent])

\* The stores to db and to the entries that follow mdb_txn_commit, in the
\* order of the code.
Stores(call) ==
  IF call.op = "save"
  THEN <<"hashes">> \o
       (IF ~call.withView THEN <<>>
        ELSE (IF ent[call.e].prev # NoEntry THEN <<"next">> ELSE <<>>) \o
             <<"push">> \o
             (IF ent[call.e].height = 0 THEN <<"head">> ELSE <<>>) \o
             <<"tail">>)
  ELSE IF call.op = "reconnect" THEN <<"next", "push", "tail">>
  ELSE <<"unlink", "pop", "untail">>

\* A call whose transaction commits as r: the sub-databases, the files and
\* the positions of the entry are as r has them; the stores to the graph
\* are still to come.
WriterBegin(r, call) ==
  /\ wr.todo = <<>>
  /\ r.res = "ok"
  /\ metaF' = r.metaF
  /\ metaR' = r.metaR
  /\ coin' = r.coin
  /\ index' = r.index
  /\ tip' = r.tip
  /\ fsize' = r.fsize
  /\ frecs' = r.frecs
  /\ file' = r.file
  /\ pos' = r.pos
  /\ ent' = [h \in Entries |-> [r.ent[h] EXCEPT !.next = ent[h].next]]
  /\ wr' = [todo |-> Stores(call), call |-> call, pre |-> Graph, post |-> GraphOf(r),
            seen |-> <<>>]
  /\ UNCHANGED <<up, hashes, heights, head, tail, last, chain, nfaults, rd,
                 txvars, cmpctvars, psvars>>

\* btc_chaindb_save up to its commit.
WriterSave(e, withView) ==
  /\ up
  /\ e \notin hashes
  /\ PrevOf(e) \in hashes
  /\ withView => PrevOf(e) = tail /\ Spendable(e, coin)
  /\ WriterBegin(btc_chaindb_save(Volatile, e, withView,
                                  IF withView THEN ViewOf(e, coin) ELSE btc_view_create,
                                  "none", 0),
                 Call("save", e, withView))

\* btc_chaindb_reconnect up to its commit.
WriterReconnect(e) ==
  /\ up
  /\ e \in hashes
  /\ ent[e].prev = tail
  /\ Spendable(e, coin)
  /\ WriterBegin(btc_chaindb_reconnect(Volatile, e, ViewOf(e, coin), "none", 0),
                 Call("reconnect", e, TRUE))

\* btc_chaindb_disconnect up to its commit.
WriterDisconnect(g) ==
  /\ up
  /\ WriterBegin(btc_chaindb_disconnect(Volatile, tail, "none", g),
                 Call("disconnect", tail, FALSE))

\* The next store of the call; the call returns after its last one.
WriterStore ==
  /\ wr.todo # <<>>
  /\ LET st == Head(wr.todo)
         e  == wr.call.e
         p  == ent[e].prev
     IN  /\ hashes' = IF st = "hashes" THEN hashes \cup {e} ELSE hashes
         /\ ent' = IF st = "next" THEN [ent EXCEPT ![p] = [@ EXCEPT !.next = e]]
                   ELSE IF st = "unlink"
                   THEN [ent EXCEPT ![p] = [@ EXCEPT !.next = NoEntry]]
                   ELSE ent
         /\ heights' = IF st = "push" THEN Append(heights, e)
                       ELSE IF st = "pop" THEN SubSeq(heights, 1, Len(heights) - 1)
                       ELSE heights
         /\ head' = IF st = "head" THEN e ELSE head
         /\ tail' = IF st = "tail" THEN e ELSE IF st = "untail" THEN p ELSE tail
  /\ wr' = [wr EXCEPT !.todo = Tail(@)]
  /\ IF Len(wr.todo) = 1
     THEN /\ last' = [wr.call EXCEPT !.res = "ok"]
          /\ chain' = ChainAfter(wr.call, "ok", FALSE)
     ELSE UNCHANGED <<last, chain>>
  /\ UNCHANGED <<metaF, metaR, coin, index, tip, fsize, frecs, up, file, pos,
                 nfaults, rd, txvars, cmpctvars, psvars>>

\* A helper thread reads the graph, once for each call of the writer.
ReadGraph ==
  /\ wr.call.op # "none"
  /\ wr.seen = <<>>
  /\ wr' = [wr EXCEPT !.seen = <<Graph>>]
  /\ UNCHANGED <<metaF, metaR, coin, index, tip, fsize, frecs, up, file, pos,
                 hashes, heights, head, tail, ent, last, chain, nfaults, rd,
                 txvars, cmpctvars, psvars>>

GraphNext ==
  \/ Open("none", 0)
  \/ \E e \in Entries, withView \in BOOLEAN : WriterSave(e, withView)
  \/ \E e \in Entries : WriterReconnect(e)
  \/ \E g \in Garbage(tail) : WriterDisconnect(g)
  \/ WriterStore
  \/ ReadGraph

GraphSpec == Init /\ [][GraphNext]_vars

(***************************************************************************)
(* PsSpec: btc_ps_onterm, and SIGTERM and SIGINT sent to the process.      *)
(***************************************************************************)
Signals == {"SIGTERM", "SIGINT"}

PsStep(p) == ps' = p /\ UNCHANGED <<chainvars, txvars, cmpctvars>>

\* btc_ps_onterm: fills the slot and installs real_handler for both signals.
OnTerm ==
  /\ ~ps.installed
  /\ PsStep([ps EXCEPT !.handler = TRUE, !.installed = TRUE])

\* Somebody sends a signal; a standard signal that is already pending is
\* not queued again.
Raise(sig) ==
  /\ ps.installed
  /\ ps.sent < MaxSignals
  /\ PsStep([ps EXCEPT !.pending = @ \cup {sig}, !.sent = @ + 1])

\* The signals blocked while the handlers on the stack run: btc_signal
\* installs with an empty sa_mask and sa_flags = 0, so each handler blocks
\* its own signal only.
Blocked == {ps.frames[i].sig : i \in 1..Len(ps.frames)}

\* The kernel delivers a pending signal that is not blocked: real_handler
\* starts on top of whatever was running.
Deliver(sig) ==
  /\ sig \in ps.pending \ Blocked
  /\ PsStep([ps EXCEPT !.pending = @ \ {sig},
                       !.frames = Append(@, [sig |-> sig, pc |-> "test"])])

\* real_handler tests global_handler and, if it is set, calls it.
HandlerTest ==
  /\ ps.frames # <<>>
  /\ ps.frames[Len(ps.frames)].pc = "test"
  /\ PsStep(IF ps.handler
            THEN [ps EXCEPT !.calls = @ + 1, !.frames[Len(ps.frames)].pc = "callback"]
            ELSE [ps EXCEPT !.frames = SubSeq(@, 1, Len(@) - 1)])

\* The callback returns; real_handler clears global_handler and returns.
HandlerReturn ==
  /\ ps.frames # <<>>
  /\ ps.frames[Len(ps.frames)].pc = "callback"
  /\ PsStep([ps EXCEPT !.handler = FALSE, !.frames = SubSeq(@, 1, Len(@) - 1)])

PsNext ==
  \/ OnTerm
  \/ \E sig \in Signals : Raise(sig)
  \/ \E sig \in Signals : Deliver(sig)
  \/ HandlerTest
  \/ HandlerReturn

PsSpec == Init /\ [][PsNext]_vars

(***************************************************************************)
(* AllocSpec: btc_chaindb_write_block and btc_chaindb_write_undo on a store *)
(* whose active file has grown to the neighbourhood of the 512 MiB limit.  *)
(***************************************************************************)
\* Sizes the active file has grown to: genesis only, and such that a block
\* or undo record ends just below, at, or just above the limit.
AllocStarts ==
  ({btc_block_size(0) + 4} \cup
   {MaxFileSize - len - d : len \in {btc_block_size(1) + 4, btc_block_size(2) + 4,
                                    btc_undo_size(<<>>) + 4, 0},
                            d \in {-1, 0, 1}}) \ {MaxFileSize + 1}

\* The undo log handed to btc_chaindb_write_undo with block e: empty for a
\* block of one transaction, one coin for a block that spends.
AllocUndo(e) ==
  IF e < 2 THEN <<>>
  ELSE <<[height |-> 1, coinbase |-> TRUE, output |-> <<2, 0>>, spent |-> TRUE]>>

\* The store after open has created it, grown to start bytes.
AllocInit ==
  /\ \E start \in AllocStarts :
        /\ pos = start
        /\ fsize = (0 :> start)
        /\ metaF = btc_int32_write(0) \o btc_int32_write(start)
  /\ file = 0
  /\ metaR = 0
  /\ coin = <<>>
  /\ ent = [FreshEntries EXCEPT ![0] = [@ EXCEPT !.block_file = 0, !.block_pos = 0]]
  /\ index = (0 :> btc_entry_export(0, ent[0]))
  /\ tip = {0}
  /\ frecs = {[file |-> 0, at |-> 0, len |-> btc_block_size(0) + 4, kind |-> "block",
               data |-> 0]}
  /\ up = TRUE
  /\ hashes = {0}
  /\ heights = <<0>>
  /\ head = 0
  /\ tail = 0
  /\ last = [op |-> "open", e |-> 0, withView |-> TRUE, res |-> "ok", pre |-> <<>>]
  /\ chain = [only |-> FALSE, seq |-> <<>>]
  /\ nfaults = 0
  /\ rd = SpendIdle
  /\ wr = WriterIdle
  /\ ps = PsIdle
  /\ TxIdle /\ CmpctIdle

\* The state a write that ended as m leaves.
Written(m, op, e, undo, fault) ==
  /\ file' = m.file
  /\ pos' = m.pos
  /\ fsize' = m.fsize
  /\ frecs' = m.frecs
  /\ ent' = m.ent
  /\ last' = [op |-> op, e |-> e, withView |-> FALSE,
              res |-> IF m.ok THEN "ok" ELSE "fail", pre |-> undo]
  /\ nfaults' = IF m.ok THEN nfaults ELSE nfaults + 1
  /\ UNCHANGED <<metaF, metaR, coin, index, tip, up, hashes, heights, head, tail,
                 chain, rd, wr, txvars, cmpctvars, psvars>>

\* btc_chaindb_write_block for a block not yet written; blocks arrive in
\* the order of their numbers.
WriteBlock(e, fault, part) ==
  /\ ent[e].block_pos = NoPos
  /\ ent[e - 1].block_pos # NoPos
  /\ fault # "none" => nfaults < MaxFaults
  /\ Written(btc_chaindb_write_block(Begin(Volatile), e, fault, part),
             "write_block", e, <<>>, fault)

\* btc_chaindb_write_undo for a written block without an undo record, as
\* btc_chaindb_connect calls it.
WriteUndo(e, undo, fault, part) ==
  /\ ent[e].block_pos # NoPos
  /\ ent[e].undo_pos = NoPos
  /\ fault # "none" => nfaults < MaxFaults
  /\ Written(btc_chaindb_write_undo(Begin(Volatile), e, undo, fault, part),
             "write_undo", e, undo, fault)

AllocNext ==
  \/ \E e \in Blocks \ {0}, fault \in {"none", "open_next", "write_block"} :
       \E part \in Parts(fault) : WriteBlock(e, fault, part)
  \/ \E e \in Blocks \ {0}, fault \in {"none", "open_next", "write_undo"} :
       \E part \in Parts(fault) : WriteUndo(e, AllocUndo(e), fault, part)

AllocSpec == AllocInit /\ [][AllocNext]_vars

(***************************************************************************)
(* SpendSpec: a helper thread in btc_chaindb_spend beside the writer, which  *)
(* opens the store and saves blocks, with no IO failure on its side.        *)
(***************************************************************************)
\* The views handed to spend for the spending transaction of block e:
\* empty, or holding a coin for its first input already.
SpendViews(e) ==
  {<<>>,
   btc_view_put(<<>>, SpendTx(e).inputs[1],
                [height |-> 1, coinbase |-> TRUE, output |-> SpendTx(e).inputs[1],
                 spent |-> FALSE])}

SpendStep(s) ==
  /\ rd' = s
  /\ UNCHANGED <<metaF, metaR, coin, index, tip, fsize, frecs, up, file, pos,
                 hashes, heights, head, tail, ent, last, chain, nfaults, wr>>
  /\ UNCHANGED <<txvars, cmpctvars, psvars>>

\* The helper thread calls btc_chaindb_spend.
SpendCall(e, view, fault) ==
  /\ up /\ rd.pc \in {"idle", "done"}
  /\ SpendStep(SpendBegin(rd, e, view, coin, fault))

\* btc_view_spend visits its next input.
SpendInput(fault) ==
  /\ up /\ rd.pc = "run" /\ rd.i <= Len(SpendTx(rd.e).inputs)
  /\ SpendStep(ViewSpendInput(rd, coin, fault))

\* btc_view_spend has returned.
SpendReturn ==
  /\ up /\ rd.pc = "run" /\ rd.i > Len(SpendTx(rd.e).inputs)
  /\ SpendStep(SpendEnd(rd))

SpendNext ==
  \/ Open("none", 0)
  \/ \E e \in Blocks, withView \in BOOLEAN : SaveCall(e, withView, "none", 0)
  \/ \E e \in 2..MaxBlock, fault \in {"none", "begin"} :
       \E view \in SpendViews(e) : SpendCall(e, view, fault)
  \/ \E fault \in {"none", "get"} : SpendInput(fault)
  \/ SpendReturn

SpendSpec == Init /\ [][SpendNext]_vars

(***************************************************************************)
(* TxEngine: calls on one transaction.  The calls do not change the        *)
(* transaction, so each is made on it as constructed; txop is the call     *)
(* made and what it gave.                                                  *)
(***************************************************************************)
TxInit ==
  /\ ChainInit /\ CmpctIdle
  /\ curtx \in TxUniverse \cup CheckedTxs
  /\ txop = TxNoOp
  /\ cache = FreshCache

TxDone(op) == txop' = op /\ UNCHANGED <<curtx, cache, chainvars, cmpctvars, psvars>>

\* btc_tx_write into a buffer.
TxWrite ==
  /\ txop.op = "none" /\ curtx \in TxUniverse
  /\ TxDone([TxNoOp EXCEPT !.op = "write", !.bytes = btc_tx_write(curtx)])

\* btc_tx_read of the bytes written, into a transaction fresh from
\* btc_tx_init.
TxRead ==
  /\ txop.op = "write"
  /\ LET r == btc_tx_read(btc_tx_init, txop.bytes)
     IN  TxDone([TxNoOp EXCEPT !.op = "read", !.ok = r.ok, !.bytes = txop.bytes,
                               !.out = r.tx])

\* btc_tx_txid and btc_tx_wtxid.
TxIds ==
  /\ txop.op = "none" /\ curtx \in TxUniverse
  /\ TxDone([TxNoOp EXCEPT !.op = "ids", !.hash = btc_tx_txid(curtx),
                           !.alt = btc_tx_wtxid(curtx)])

\* btc_tx_sighash_v0.
TxSighashV0(idx, prev, type, g) ==
  LET r == btc_tx_sighash_v0(curtx, idx, prev, type, g)
  IN  /\ txop.op = "none" /\ curtx \in TxUniverse
      /\ TxDone([TxNoOp EXCEPT !.op = "sighash_v0", !.index = idx, !.type = type,
                               !.hash = r.hash, !.reads = r.reads])

\* btc_tx_check_sanity.
TxCheckSanity(g) ==
  /\ txop.op = "none"
  /\ TxDone([TxNoOp EXCEPT !.op = "check_sanity", !.err = btc_tx_check_sanity(curtx, g)])

\* btc_check_inputs, of a transaction that passed btc_tx_check_sanity.
TxCheckInputs(view, height, g) ==
  /\ txop.op = "check_sanity" /\ txop.err.ret = 1
  /\ TxDone([TxNoOp EXCEPT !.op = "check_inputs", !.view = view, !.height = height,
                           !.err = btc_check_inputs(curtx, view, height, g)])

\* btc_tx_sighash_v1 with the cache, for an input of the transaction, as
\* btc_tx_verify makes it for one input after another.
TxSighashV1(idx, prev, value, type) ==
  /\ txop.op \in {"none", "sighash_v1"} /\ curtx \in TxUniverse
  /\ idx < Len(curtx.inputs)
  /\ idx = IF txop.op = "none" THEN 0 ELSE txop.index + 1
  /\ LET r == btc_tx_sighash_v1(curtx, idx, prev, value, type, TRUE, cache)
     IN  /\ txop' = [TxNoOp EXCEPT !.op = "sighash_v1", !.index = idx, !.type = type,
                                   !.prev = prev, !.value = value, !.hash = r.hash,
                                   !.parts = [prevouts |-> r.prevouts,
                                              sequences |-> r.sequences,
                                              outputs |-> r.outputs,
                                              hits |-> r.hits]]
         /\ cache' = r.cache
  /\ UNCHANGED <<curtx, chainvars, cmpctvars, psvars>>

TxNext ==
  \/ TxWrite
  \/ TxRead
  \/ TxIds
  \/ \E idx \in 0..MaxInputs, prev \in PrevScripts, type \in SighashTypes :
       \E g \in SighashGarbage(curtx, idx, type) : TxSighashV0(idx, prev, type, g)
  \/ \E g \in CheckGarbage : TxCheckSanity(g)
  \/ \E idx \in 0..(MaxInputs - 1), type \in CachedTypes :
       TxSighashV1(idx, <<171, 118>>, 50, type)
  \/ \E view \in Views(curtx), height \in CheckHeights, g \in CheckGarbage :
       TxCheckInputs(view, height, g)

TxSpec == TxInit /\ [][TxNext]_vars

(***************************************************************************)
(* CompactBlockCodec: one exchange.  A sender builds the compact block     *)
(* from its block, or the receiver has read one from the wire; the         *)
(* receiver sets it up, requests the missing transactions, fills them in   *)
(* from a response and finalizes.  cop is the last call: its value (ret),  *)
(* whether every message so far is the sender's own (rt), and for          *)
(* fill_missing the empty slots before it (need) and the transactions of   *)
(* the response (given).                                                   *)
(***************************************************************************)
\* The transactions of the blocks considered: a coinbase, a transaction
\* with a witness and one without.
CodecTxs ==
  LET in1 == CHOOSE i \in InputPool : i.prevout.hash = 0
      in2 == CHOOSE i \in InputPool : i.prevout.hash = 8
      in3 == CHOOSE i \in InputPool : i.prevout.hash = 7
      out == CHOOSE o \in OutputPool : o.value = 50
  IN  { [version |-> 1, inputs |-> <<[in1 EXCEPT !.witness = <<>>]>>,
         outputs |-> <<out>>, locktime |-> 0],
        [version |-> 1, inputs |-> <<in2>>, outputs |-> <<out>>, locktime |-> 0],
        [version |-> 1, inputs |-> <<in3>>, outputs |-> <<out>>, locktime |-> 0] }

CodecBlocks ==
  { [header |-> h, txs |-> txs] :
      h \in {1}, txs \in SeqsUpTo(CodecTxs, MaxBlockTxs) \ {<<>>} }

\* The values btc_random yields for the key nonce.
Nonces == {0, 1}

\* Compact blocks given to setup, read from the wire or built by the
\* caller, with every _index at most 0xffff.  Among them blocks with as
\* many short ids as the size checks of setup allow, one fewer and many
\* more.
ReceivedBlocks ==
  LET cb   == CHOOSE c \in CodecTxs : c.inputs[1].prevout.hash = 0
      pool == {[tx |-> cb, index |-> k] : k \in {0, 1, 65535}}
      many == {(BTC_MAX_BLOCK_SIZE - 81) \div 60 - 1, (BTC_MAX_BLOCK_SIZE - 81) \div 60,
               BTC_MAX_BLOCK_SIZE \div 10}
  IN  { [header |-> 1, key_nonce |-> 0, ids |-> ids, ptx |-> ptx] :
          ids \in SeqsUpTo(1..2, MaxIds), ptx \in SeqsUpTo(pool, MaxPrefilled) }
      \cup
      { [header |-> 1, key_nonce |-> 0, ids |-> [i \in 1..n |-> i], ptx |-> ptx] :
          n \in many, ptx \in SeqsUpTo({p \in pool : p.index = 0}, 1) }

\* Index lists of requests a caller builds: strictly increasing, at most
\* 0xffff.
IndexLists ==
  { l \in SeqsUpTo({0, 1, 252, 253, 65534, 65535}, MaxIndexes) :
      \A i \in 1..(Len(l) - 1) : l[i] < l[i + 1] }

\* Differences as they arrive in a getblocktxn message.
DeltaLists == SeqsUpTo({0, 1, 65535, 65536}, MaxIndexes)

CmpctInit == ChainInit /\ TxIdle /\ CmpctIdle

CmpctDone(op) == cop' = op /\ UNCHANGED <<chainvars, txvars, psvars>>

\* The sender: btc_cmpct_set_block.
SetBlock(b, witness, nonce) ==
  /\ cop.op = "init"
  /\ cmpct' = btc_cmpct_set_block(btc_cmpct_init, b, witness, nonce)
  /\ peer' = b
  /\ UNCHANGED <<getblocktxn, blocktxn, zblock>>
  /\ CmpctDone([CmpctNoOp EXCEPT !.op = "set_block", !.rt = TRUE])

\* The receiver has read a compact block from the wire.
Receive(cb) ==
  /\ cop.op = "init"
  /\ cmpct' = [btc_cmpct_init EXCEPT !.header = cb.header, !.key_nonce = cb.key_nonce,
                                   !.ids = cb.ids, !.ptx = cb.ptx]
  /\ UNCHANGED <<peer, getblocktxn, blocktxn, zblock>>
  /\ CmpctDone([CmpctNoOp EXCEPT !.op = "read"])

\* btc_cmpct_setup.
Setup ==
  /\ cop.op \in {"set_block", "read"}
  /\ LET r == btc_cmpct_setup(cmpct)
     IN  /\ cmpct' = r.blk
         /\ CmpctDone([CmpctNoOp EXCEPT !.op = "setup", !.ret = r.ret, !.rt = cop.rt])
  /\ UNCHANGED <<peer, getblocktxn, blocktxn, zblock>>

\* btc_getblocktxn_set_cmpct, after a setup that succeeded.
Request ==
  /\ cop.op = "setup" /\ cop.ret = 1
  /\ getblocktxn' = btc_getblocktxn_set_cmpct(btc_getblocktxn_init, cmpct)
  /\ UNCHANGED <<cmpct, peer, blocktxn, zblock>>
  /\ CmpctDone([CmpctNoOp EXCEPT !.op = "request", !.rt = cop.rt])

\* The sender answers the request: btc_blocktxn_set_block.
Respond ==
  /\ cop.op = "request" /\ cop.rt
  /\ blocktxn' = btc_blocktxn_set_block(btc_blocktxn_init, peer, getblocktxn)
  /\ UNCHANGED <<cmpct, peer, getblocktxn, zblock>>
  /\ CmpctDone([CmpctNoOp EXCEPT !.op = "respond", !.rt = TRUE])

\* Some peer answers with transactions of its choice: to the request, or
\* (for a block of few transactions) a second time after a response that
\* btc_cmpct_fill_missing turned down.
RespondAny(txs) ==
  /\ \/ cop.op = "request"
     \/ /\ cop.op = "fill" /\ cop.ret = 0
        /\ cmpct.avail.length <= MaxIds + MaxPrefilled
  /\ blocktxn' = [hash |-> cmpct.header, txs |-> txs]
  /\ UNCHANGED <<cmpct, peer, getblocktxn, zblock>>
  /\ CmpctDone([CmpctNoOp EXCEPT !.op = IF cop.op = "request" THEN "respond"
                                        ELSE "respond_again"])

\* btc_cmpct_fill_missing, with the first response ("fill") or a later one
\* ("refill").
Fill ==
  /\ cop.op \in {"respond", "respond_again"}
  /\ LET r == btc_cmpct_fill_missing(cmpct, blocktxn)
     IN  /\ cmpct' = r.blk
         /\ CmpctDone([CmpctNoOp EXCEPT
                         !.op = IF cop.op = "respond" THEN "fill" ELSE "refill",
                         !.ret = r.ret, !.rt = cop.rt,
                         !.need = cmpct.avail.length - Cardinality(DOMAIN cmpct.avail.items),
                         !.given = Len(blocktxn.txs)])
  /\ UNCHANGED <<peer, getblocktxn, blocktxn, zblock>>

\* btc_cmpct_finalize, after a fill_missing that succeeded.
Finalize ==
  /\ cop.op \in {"fill", "refill"} /\ cop.ret = 1
  /\ LET r == btc_cmpct_finalize(cmpct)
     IN  /\ cmpct' = r.blk
         /\ zblock' = r.block
         /\ CmpctDone([CmpctNoOp EXCEPT !.op = "finalize", !.rt = cop.rt,
                                        !.ret = IF r.aborted THEN -1 ELSE 1])
  /\ UNCHANGED <<peer, getblocktxn, blocktxn>>

\* A caller builds a request of its own.
RequestAny(indexes) ==
  /\ cop.op = "init"
  /\ getblocktxn' = [btc_getblocktxn_init EXCEPT !.indexes = indexes]
  /\ UNCHANGED <<cmpct, peer, blocktxn, zblock>>
  /\ CmpctDone([CmpctNoOp EXCEPT !.op = "request_any"])

\* btc_getblocktxn_write, of requests of at most MaxIndexes indexes.
RequestWrite ==
  /\ cop.op \in {"request", "request_any"}
  /\ Len(getblocktxn.indexes) <= MaxIndexes
  /\ UNCHANGED <<cmpct, peer, getblocktxn, blocktxn, zblock>>
  /\ CmpctDone([CmpctNoOp EXCEPT !.op = "write", !.bytes = btc_getblocktxn_write(getblocktxn)])

\* A getblocktxn message arrives with the differences sent.
RequestWire(sent) ==
  /\ cop.op = "init"
  /\ UNCHANGED <<cmpct, peer, getblocktxn, blocktxn, zblock>>
  /\ CmpctDone([CmpctNoOp EXCEPT
                  !.op = "wire", !.sent = sent,
                  !.bytes = Hash32(0) \o btc_size_write(Len(sent))
                              \o Flatten([i \in 1..Len(sent) |-> btc_size_write(sent[i])])])

\* btc_getblocktxn_read of the bytes written or arrived.
RequestRead ==
  /\ cop.op \in {"write", "wire"}
  /\ UNCHANGED <<cmpct, peer, getblocktxn, blocktxn, zblock>>
  /\ LET r == btc_getblocktxn_read(btc_getblocktxn_init, cop.bytes)
     IN  CmpctDone([CmpctNoOp EXCEPT
                      !.op = IF cop.op = "write" THEN "read_written" ELSE "read_wire",
                      !.ok = r.ok, !.bytes = cop.bytes, !.sent = cop.sent,
                      !.out = r.req.indexes])

CmpctNext ==
  \/ \E b \in CodecBlocks, witness \in BOOLEAN, nonce \in Nonces : SetBlock(b, witness, nonce)
  \/ \E cb \in ReceivedBlocks : Receive(cb)
  \/ Setup
  \/ Request
  \/ Respond
  \/ \E txs \in SeqsUpTo(CodecTxs, MaxResponse) : RespondAny(txs)
  \/ Fill
  \/ Finalize
  \/ \E indexes \in IndexLists : RequestAny(indexes)
  \/ RequestWrite
  \/ \E sent \in DeltaLists : RequestWire(sent)
  \/ RequestRead

CmpctSpec == CmpctInit /\ [][CmpctNext]_vars

(***************************************************************************)
(* Properties.                                                             *)
(***************************************************************************)
\* meta['F'] as open reads it.
StoredFile == IF metaF = <<>> THEN 0 ELSE read32le(SubSeq(metaF, 1, 4))
StoredPos == IF metaF = <<>> THEN 0 ELSE read32le(SubSeq(metaF, 5, 8))

\* The coins of the outputs the blocks of the sequence hs create, less the
\* outputs their inputs consume.
Unspent(hs) ==
  LET made  == UNION {{<<h, o>> : o \in CreatedBy(BlockTxs(h))} : h \in SeqToSet(hs)}
      spent == UNION {SeqToSet(SpentBy(BlockTxs(h))) : h \in SeqToSet(hs)}
      outs  == {x[2] : x \in made} \ spent
  IN  [o \in outs |->
         LET h == CHOOSE h \in SeqToSet(hs) : <<h, o>> \in made
         IN  btc_coin_export(OutputCoins(BlockTxs(h), HeightOf(h), FALSE)[o])]

\* C1: after a store has been created and every call since has been a
\* successful save with a view, E0 (genesis), E1, ..., En in this order,
\* heights holds exactly E0..En, tail is En, head is E0 and meta['R'] is
\* En's hash.
C1_SavedChainIsHeights ==
  (up /\ chain.only) =>
    /\ Len(heights) = Len(chain.seq)
    /\ \A i \in 1..Len(chain.seq) : heights[i] = chain.seq[i]
    /\ tail = chain.seq[Len(chain.seq)]
    /\ head = chain.seq[1]
    /\ metaR = chain.seq[Len(chain.seq)]

\* C1 witness: genesis and two more blocks have been saved on the main chain.
C1_Witness == up /\ chain.only /\ Len(chain.seq) = 3

\* C2: when disconnect(E) follows a successful save(E, B, V) and meets no
\* IO fault, it succeeds, the coin table is again what it was before the
\* save, tail is E.prev and meta['R'] is E.prev's hash.
C2_DisconnectUndoesSave ==
  [][(/\ last.op = "save" /\ last.res = "ok" /\ last.withView
      /\ last'.op = "disconnect" /\ last'.e = last.e
      /\ nfaults' = nfaults)
     => (/\ last'.res = "ok"
         /\ coin' = last.pre
         /\ tail' = PrevOf(last.e)
         /\ metaR' = PrevOf(last.e))]_vars

\* C3: with every call so far committed, what open would load from the
\* store is the Entry graph held in memory: the same entries with the same
\* fields and links, the same heights, head and tail.
C3_ReopenSameGraph ==
  (up /\ nfaults = 0 /\ last.res = "ok") =>
    LET l == btc_chaindb_load
    IN  /\ l.ok
        /\ l.hashes = hashes
        /\ \A h \in hashes : l.ent[h] = ent[h]
        /\ l.heights = heights
        /\ l.head = head
        /\ l.tail = tail

\* The entries reached from h by next links.
RECURSIVE NextWalk(_)
NextWalk(h) == IF h = NoEntry THEN {} ELSE {h} \cup NextWalk(ent[h].next)

\* C4: while the store is open the main chain is doubly linked: heights
\* holds one entry per height, each the next of the one below, the tip has
\* no next, every entry above genesis is the next of its prev, and the
\* entries linked from head are exactly those of heights.
C4_MainChainLinked ==
  up =>
    /\ heights # <<>>
    /\ head = heights[1]
    /\ tail = heights[Len(heights)]
    /\ \A i \in 1..Len(heights) : ent[heights[i]].height = i - 1
    /\ \A i \in 1..(Len(heights) - 1) : ent[heights[i]].next = heights[i + 1]
    /\ ent[tail].next = NoEntry
    /\ \A i \in 2..Len(heights) : ent[ent[heights[i]].prev].next = heights[i]
    /\ NextWalk(head) = SeqToSet(heights)
    /\ Cardinality(SeqToSet(heights)) = Len(heights)

\* C4 witness: a block saved on a side chain has been reconnected on top of
\* two others.
C4_Witness ==
  up /\ last.op = "reconnect" /\ last.res = "ok" /\ Len(heights) = 3

\* C5 as stated: the coin table holds the unspent outputs of all main-chain
\* blocks, genesis included.
C5_CoinsOfMainChainWithGenesis == up => coin = Unspent(heights)

\* C5 amended: the coin table holds the unspent outputs of the main-chain
\* blocks above genesis; the outputs of genesis are never in it.
C5_CoinsOfMainChain == up => coin = Unspent(Tail(heights))

\* C5 witness: a block that spends two outputs of its parent is connected.
C5_Witness ==
  up /\ Len(heights) = 3 /\ <<2, 0>> \notin DOMAIN coin
     /\ <<2, 2>> \in DOMAIN coin

\* C6: between calls, whether the calls before succeeded or failed, the
\* persisted tip pointer is the hash of the in-memory tip.
C6_TipPointerIsTail == up => metaR = tail

\* C6 witness: a call has failed after the main chain grew.
C6_Witness ==
  up /\ last.res = "fail" /\ last.op \in {"save", "reconnect"} /\ Len(heights) = 2

\* C7: between calls the position stored in meta['F'] is the size of the
\* active block file.
C7_StoredPosIsFileSize == up => SizeOf(fsize, StoredFile) = StoredPos

\* C8: reorganisation between siblings: a disconnect(B1) that follows a
\* successful save(B1, view) succeeds and leaves the parent as tip, and the
\* save(B2, view) of a sibling that follows it succeeds with tail and
\* meta['R'] at B2 and the coin table holding the effects of the chain that
\* ends in B2.
C8_SiblingReorg ==
  [][/\ (/\ last.op = "save" /\ last.res = "ok" /\ last.withView
         /\ last'.op = "disconnect" /\ last'.e = last.e
         /\ \E b \in Blocks \ {last.e} : PrevOf(b) = PrevOf(last.e)
         /\ nfaults' = nfaults)
        => (last'.res = "ok" /\ tail' = PrevOf(last.e))
     /\ (/\ last.op = "disconnect" /\ last.res = "ok"
         /\ last'.op = "save" /\ last'.withView
         /\ last'.e # last.e /\ PrevOf(last'.e) = PrevOf(last.e)
         /\ nfaults' = nfaults)
        => (/\ last'.res = "ok"
            /\ tail' = last'.e
            /\ metaR' = last'.e
            /\ coin' = Unspent(Tail(heights')))]_vars

\* C9: a save, reconnect or disconnect that returns failure leaves the four
\* sub-databases and the in-memory graph (the hashes mapped, heights, head,
\* tail and every next link) as they were; one that returns success leaves
\* the hashes map equal to the keys of the index, and, when it connected
\* its entry, tail and meta['R'] both at that entry.
C9_AllOrNothing ==
  [][/\ (last'.op \in {"save", "reconnect", "disconnect"} /\ last'.res = "fail")
        => /\ <<metaF, metaR, coin, index, tip>>' = <<metaF, metaR, coin, index, tip>>
           /\ <<hashes, heights, head, tail>>' = <<hashes, heights, head, tail>>
           /\ \A h \in Blocks : ent'[h].next = ent[h].next
     /\ (last'.op \in {"save", "reconnect"} /\ last'.res = "ok")
        => /\ hashes' = DOMAIN index'
           /\ metaF' = btc_int32_write(file') \o btc_int32_write(pos')
           /\ last'.withView => (tail' = last'.e /\ metaR' = last'.e)]_vars

\* C9 witness: a save with a view has failed after it wrote its block.
C9_Witness ==
  up /\ last.op = "save" /\ last.withView /\ last.res = "fail"
     /\ ent[last.e].block_pos # NoPos

\* C10: when a save or reconnect crashed after it appended to the active
\* block file and before its commit, the next open, meeting no IO fault,
\* finds meta['F'] as it was before the write and succeeds although the
\* file is larger than the stored position.
C10_OpenAfterCrashedWrite ==
  [][(/\ last.op \in {"save", "reconnect"} /\ last.res = "crash"
      /\ SizeOf(fsize, StoredFile) > StoredPos
      /\ last'.op = "open"
      /\ nfaults' = nfaults)
     => (last'.res = "ok" /\ up' /\ metaF' = metaF)]_vars

\* C25: a save without a view (a side-chain save) that succeeds leaves the
\* coin table, meta['R'], heights, head, tail and every next link as they
\* were; it stores the block bytes, meta['F'], the index row of its entry,
\* the tip rows (its own added, its parent's removed) and its entry in the
\* hashes map, and nothing else.
C25_SideChainSaveFrame ==
  [][(last'.op = "save" /\ ~last'.withView /\ last'.res = "ok")
     => LET e == last'.e
        IN  /\ <<coin, metaR, heights, head, tail>>' = <<coin, metaR, heights, head, tail>>
            /\ \A h \in Blocks : ent'[h].next = ent[h].next
            /\ \A h \in Blocks \ {e} : ent'[h] = ent[h]
            /\ \E r \in frecs' : /\ r.kind = "block" /\ r.data = e
                                 /\ frecs' = frecs \cup {r}
            /\ metaF' = btc_int32_write(file') \o btc_int32_write(pos')
            /\ DOMAIN index' = DOMAIN index \cup {e}
            /\ index'[e] = btc_entry_export(e, ent'[e])
            /\ \A h \in DOMAIN index \ {e} : index'[h] = index[h]
            /\ tip' = (tip \ {PrevOf(e)}) \cup {e}
            /\ hashes' = hashes \cup {e}]_vars

\* C25 witness: a side-chain save has succeeded next to a main chain of two
\* blocks that hold coins.
C25_Witness ==
  up /\ last.op = "save" /\ ~last.withView /\ last.res = "ok"
     /\ Len(heights) = 2 /\ coin # <<>> /\ last.e \in hashes

\* C26: spend holds at most one read-only transaction, open exactly while
\* the call runs and released on every path by the time it has returned;
\* the coins it resolved are those the table held for the transaction's
\* missing inputs when the transaction was opened, whatever the writer has
\* committed since; and none of its steps changes a sub-database, a file
\* or the in-memory state (hashes, heights, head, tail, entries, file
\* cursor).
C26_SpendReadsOneSnapshot ==
  /\ [](/\ rd.open = IF rd.pc = "run" THEN 1 ELSE 0
        /\ (rd.pc = "done" /\ rd.rc = 1 /\ rd.errs = {})
             => rd.view = SpendAll(SpendBegin(SpendIdle, rd.e, rd.view0, rd.at, "none"),
                                   rd.at).view)
  /\ [][(rd' # rd /\ up')
        => UNCHANGED <<metaF, metaR, coin, index, tip, fsize, frecs, file, pos,
                       hashes, heights, head, tail, ent>>]_vars

\* C26 witness: a spend of two inputs has returned with both resolved after
\* the writer committed a block that spent them during the call.
C26_Witness ==
  /\ rd.pc = "done" /\ rd.rc = 1 /\ rd.view0 = <<>> /\ rd.errs = {}
  /\ Len(SpendTx(rd.e).inputs) = 2
  /\ SeqToSet(SpendTx(rd.e).inputs) \subseteq DOMAIN rd.view
  /\ SeqToSet(SpendTx(rd.e).inputs) \cap DOMAIN coin = {}

\* C27: a spend in which mdb_get failed with an error other than
\* MDB_NOTFOUND returns to its caller something else than the same call
\* returns when the coins of those inputs are simply not in the table: the
\* read error is surfaced, not reported as a missing coin.
C27_ReadErrorSurfaced ==
  (rd.pc = "done" /\ rd.errs # {}) =>
    LET absent == [o \in DOMAIN rd.at \ rd.errs |-> rd.at[o]]
        m == SpendAll(SpendBegin(SpendIdle, rd.e, rd.view0, absent, "none"), absent)
    IN  <<rd.rc, rd.view>> # <<m.rc, m.view>>

\* The loops of btc_chaindb_disconnect_block as a disconnect of entry e
\* runs them from the state d, with g for what a read past the end of an
\* input vector yields.
DisconnectLoops(d, e, g) ==
  DisconnectTxs(BlockTxs(e), Len(BlockTxs(e)), d.ent[e].height,
                [view |-> <<>>, undo |-> btc_chaindb_read_undo(d, e, "none").undo,
                 status |-> "run", puts |-> <<>>], g)

\* C28: in a disconnect that read its undo log, every coin popped from the
\* log is put into the view at the prevout of the input the inner loop is
\* visiting, input j of transaction i.
C28_PutAtVisitedInput ==
  [][(last'.op = "disconnect" /\ nfaults' = nfaults
        /\ btc_chaindb_read_undo(Volatile, last'.e, "none").ok)
     => \A g \in Garbage(last'.e) :
          LET puts == DisconnectLoops(Volatile, last'.e, g).puts
          IN  \A n \in 1..Len(puts) :
                puts[n].at = BlockTxs(last'.e)[puts[n].tx].inputs[puts[n].input]]_vars

\* C29: a disconnect of a tip above genesis (a block connected by save or
\* reconnect) that read its undo log starts from the empty log when the entry has no undo record, pops one coin for every
\* non-coinbase input of the block and no other, never pops from an empty
\* log, and finds the log empty after its loops.
C29_PopsWhatWasRecorded ==
  [][(last'.op = "disconnect" /\ nfaults' = nfaults /\ PrevOf(last'.e) # NoEntry
        /\ btc_chaindb_read_undo(Volatile, last'.e, "none").ok)
     => \A g \in Garbage(last'.e) :
          LET e == last'.e
              recorded == btc_chaindb_read_undo(Volatile, e, "none").undo
              s == DisconnectLoops(Volatile, e, g)
          IN  /\ ent[e].undo_pos = NoPos => recorded = <<>>
              /\ s.status = "run"
              /\ s.undo = <<>>
              /\ Len(s.puts) = Len(SpentBy(BlockTxs(e)))
              /\ \A n \in 1..Len(s.puts) :
                    s.puts[n].coin = recorded[Len(recorded) + 1 - n]]_vars

\* C30: in a save or reconnect, file bytes come before the commit and the
\* commit before the in-memory update.  When the sub-databases have changed
\* (the commit took place) the block bytes of the entry, and for a
\* connected block that spends coins its undo bytes, are in the file; when
\* the call has changed the hashes map, heights, head, tail or a next link
\* the commit took place and the call returns success; on a path where the
\* commit failed or was not reached none of these is changed.
C30_WriteCommitThenMemory ==
  [][(last'.op \in {"save", "reconnect"})
     => LET e == last'.e
            committed == <<metaF, metaR, coin, index, tip>>' # <<metaF, metaR, coin, index, tip>>
            same == /\ <<hashes, heights, head, tail>>' = <<hashes, heights, head, tail>>
                    /\ \A h \in Blocks : ent'[h].next = ent[h].next
        IN  /\ committed =>
                  /\ \E r \in frecs' : r.kind = "block" /\ r.data = e
                  /\ (last'.withView /\ SpentBy(BlockTxs(e)) # <<>>) =>
                        \E r \in frecs' : /\ r.kind = "undo"
                                           /\ r.data = btc_undo_export(ViewOf(e, coin).undo)
            /\ (up' /\ ~same) => (committed /\ last'.res = "ok")
            /\ (up' /\ ~committed) => same
            /\ last'.res = "ok" => (committed /\ e \in hashes')]_vars

\* C30 witness: a reconnect has failed at its commit after it appended the
\* undo bytes of its block; the block is not on the main chain.
C30_Witness ==
  /\ up /\ last.op = "reconnect" /\ last.res = "fail"
  /\ ent[last.e].undo_pos # NoPos
  /\ \A i \in 1..Len(heights) : heights[i] # last.e

\* The calls listed are those of transactions each begun and then ended by
\* one commit or one abort.
RECURSIVE EndedOnce(_)
EndedOnce(calls) ==
  \/ calls = <<>>
  \/ /\ Len(calls) >= 2 /\ calls[1] = "begin" /\ calls[2] \in {"commit", "abort"}
     /\ EndedOnce(SubSeq(calls, 3, Len(calls)))

Leaves(idx) ==
  {h \in DOMAIN idx :
     \A c \in DOMAIN idx : btc_entry_import(idx[c]).prev_block # h}

\* C32: a save that meets no IO failure, on the main chain or beside it, of
\* a first child or of a further child of its parent, commits, and the tip
\* sub-database then holds exactly the hashes of the index entries without
\* a child in the index.
C32_TipRowsAreLeaves ==
  [][(last'.op = "save" /\ nfaults' = nfaults)
     => (last'.res = "ok" /\ tip' = Leaves(index'))]_vars

\* C34: a committed save or reconnect that advances meta['F'] leaves in
\* index[E.hash] the block and undo positions the entry now has: the
\* watermark never passes a record the persisted Entry does not point at.
C34_WatermarkWithIndex ==
  [][(/\ last'.op \in {"save", "reconnect"}
      /\ last'.res = "ok"
      /\ metaF' # metaF) =>
       /\ last'.e \in DOMAIN index'
       /\ LET row == btc_entry_import(index'[last'.e])
              e   == ent'[last'.e]
          IN  /\ row.block_file = e.block_file
              /\ row.block_pos = e.block_pos
              /\ row.undo_file = e.undo_file
              /\ row.undo_pos = e.undo_pos]_vars

\* The stores of a call, all made, leave the graph the call returns with.
StoresReachReturn ==
  (wr.call.op # "none" /\ wr.todo = <<>>) => Graph = wr.post

\* C35: a helper thread that reads the Entry graph while save, reconnect or
\* disconnect runs finds the graph the call began with or the graph the call
\* returns with.
C35_ReaderSeesPreOrPost ==
  \A i \in 1..Len(wr.seen) : wr.seen[i] \in {wr.pre, wr.post}

\* C36: the callback installed with btc_ps_onterm is called at most once,
\* however SIGTERM and SIGINT are sent and delivered.
C36_CallbackAtMostOnce == ps.calls <= 1

\* C33: a write of len bytes moves to the next file exactly when pos + len
\* exceeds the limit and the next file opens, and then (file, pos) is
\* (file + 1, 0) before the record is written; pos advances by len only after
\* a successful write, so it never exceeds the limit; the record lies whole
\* in the active file; a failed open of the next file changes nothing.
C33_AllocRotation ==
  [][last'.op \in {"write_block", "write_undo"} =>
       LET len     == IF last'.op = "write_block" THEN btc_block_size(last'.e) + 4
                      ELSE btc_undo_size(last'.pre) + 4
           over    == pos + len > MaxFileSize
           rotated == file' # file
           ok      == last'.res = "ok"
       IN  /\ rotated => over /\ file' = file + 1 /\ pos' = (IF ok THEN len ELSE 0)
           /\ (over /\ ~rotated) => ~ok /\ pos' = pos /\ fsize' = fsize /\ frecs' = frecs
           /\ ~over => ~rotated /\ pos' = (IF ok THEN pos + len ELSE pos)
           /\ pos' <= MaxFileSize
           /\ ok <=> frecs' # frecs
           /\ \A r \in frecs' \ frecs :
                /\ r.file = file'
                /\ r.len = len
                /\ r.at + r.len <= SizeOf(fsize', r.file)]_vars

\* A record was written as the first of the next file.
C33_Witness ==
  /\ last.op \in {"write_block", "write_undo"}
  /\ last.res = "ok"
  /\ file = 1
  /\ \E r \in frecs : r.file = 1 /\ r.at = 0 /\ pos = r.len

(***************************************************************************)
(* TxEngine properties.                                                    *)
(***************************************************************************)
\* Some input of the transaction has a witness with at least one item.
SomeWitness(t) == \E i \in 1..Len(t.inputs) : Len(t.inputs[i].witness) > 0

C13_IdsDifferIffWitness ==
  txop.op = "ids"
    => /\ (txop.hash.bytes # txop.alt.bytes) <=> SomeWitness(curtx)
       /\ ~SomeWitness(curtx) => txop.hash = txop.alt

\* C13 witness: the ids of a transaction whose first input has no witness
\* and whose second has one differ.
C13_Witness ==
  /\ txop.op = "ids" /\ txop.hash # txop.alt
  /\ Len(curtx.inputs) = 2
  /\ curtx.inputs[1].witness = <<>> /\ curtx.inputs[2].witness # <<>>

\* C14: btc_tx_sighash_v0 with (type & 0x1f) == SINGLE and an index that is
\* not below the number of outputs gives 01 followed by 31 zero bytes,
\* whatever the transaction, the previous script and the other bits of the
\* type, and reads neither the input nor the output at that index.
C14_SingleBugConstant ==
  (/\ txop.op = "sighash_v0"
   /\ txop.type % 32 = BTC_SIGHASH_SINGLE
   /\ txop.index >= Len(curtx.outputs))
    => /\ txop.hash = OneHash
       /\ <<"input", txop.index>> \notin txop.reads
       /\ <<"output", txop.index>> \notin txop.reads

\* C14 witness: SINGLE with ANYONECANPAY at the index just past the last
\* output of a transaction that has outputs, and past its last input.
C14_Witness ==
  /\ txop.op = "sighash_v0"
  /\ txop.type = BTC_SIGHASH_SINGLE + BTC_SIGHASH_ANYONECANPAY
  /\ Len(curtx.outputs) > 0 /\ txop.index = Len(curtx.outputs)
  /\ txop.index >= Len(curtx.inputs)
  /\ txop.hash = OneHash

\* The sum of the amounts of the first k outputs.
RECURSIVE OutputSum(_, _)
OutputSum(outs, k) == IF k = 0 THEN 0 ELSE OutputSum(outs, k - 1) + outs[k].value

\* Some output has an amount outside [0, MAX_MONEY].
BadAmount(t) ==
  \E i \in 1..Len(t.outputs) :
    t.outputs[i].value < 0 \/ t.outputs[i].value > BTC_MAX_MONEY

\* The cases for which C21 names the score 100.
Score100(t) ==
  \/ Len(t.inputs) = 0
  \/ Len(t.outputs) = 0
  \/ btc_tx_base_size(t) > BTC_MAX_BLOCK_SIZE
  \/ BadAmount(t)
  \/ ~BadAmount(t) /\ \E k \in 1..Len(t.outputs) : OutputSum(t.outputs, k) > BTC_MAX_MONEY
  \/ \E i, j \in 1..Len(t.inputs) : i # j /\ t.inputs[i].prevout = t.inputs[j].prevout
  \/ /\ Len(t.inputs) = 1
     /\ t.inputs[1].prevout = [hash |-> 0, index |-> -1]
     /\ Len(t.inputs[1].script) \notin 2..100

\* The case for which C21 names the score 10.
Score10(t) ==
  /\ ~(Len(t.inputs) = 1 /\ t.inputs[1].prevout = [hash |-> 0, index |-> -1])
  /\ \E i \in 1..Len(t.inputs) : t.inputs[i].prevout = [hash |-> 0, index |-> -1]

\* C21: btc_tx_check_sanity fails with score 100 for a transaction without
\* inputs, without outputs, with a base size above MAX_BLOCK_SIZE, with an
\* output amount below 0 or above MAX_MONEY, with a running sum of the
\* amounts outside [0, MAX_MONEY], with an outpoint in two inputs, or a
\* coinbase whose input script is not 2 to 100 bytes long; of the others it
\* fails those that are not a coinbase and have a null prevout, with score
\* 10, and passes the rest.  The running sum never leaves int64_t.
C21_SanityVerdict ==
  txop.op = "check_sanity"
    => /\ ~txop.err.ub
       /\ Score100(curtx) => (txop.err.ret = 0 /\ txop.err.score = 100)
       /\ (~Score100(curtx) /\ Score10(curtx))
            => (txop.err.ret = 0 /\ txop.err.score = 10)
       /\ (~Score100(curtx) /\ ~Score10(curtx)) => txop.err.ret = 1

\* C21 witness: a transaction of two inputs, one with a null prevout, whose
\* two outputs add up to MAX_MONEY exactly, has been failed with score 10.
C21_Witness ==
  /\ txop.op = "check_sanity" /\ txop.err.ret = 0 /\ txop.err.score = 10
  /\ Len(curtx.inputs) = 2 /\ Len(curtx.outputs) = 2
  /\ OutputSum(curtx.outputs, 2) = BTC_MAX_MONEY

\* The sum of the amounts of the coins of the first k inputs, all held by
\* the view.
RECURSIVE InputSum(_, _, _)
InputSum(ins, view, k) ==
  IF k = 0 THEN 0 ELSE InputSum(ins, view, k - 1) + view[ins[k].prevout].output.value

\* The coin of input i is missing, or a coinbase coin less than 100 blocks
\* below the height.
Score0At(t, view, height, i) ==
  \/ t.inputs[i].prevout \notin DOMAIN view
  \/ /\ view[t.inputs[i].prevout].coinbase
     /\ height - view[t.inputs[i].prevout].height < 100

\* The amount of the coin of input i, or the total of the coins up to it,
\* is outside [0, MAX_MONEY].
Score100At(t, view, height, i) ==
  /\ t.inputs[i].prevout \in DOMAIN view
  /\ \/ view[t.inputs[i].prevout].output.value < 0
     \/ view[t.inputs[i].prevout].output.value > BTC_MAX_MONEY
     \/ /\ \A j \in 1..i : /\ t.inputs[j].prevout \in DOMAIN view
                           /\ view[t.inputs[j].prevout].output.value >= 0
                           /\ view[t.inputs[j].prevout].output.value <= BTC_MAX_MONEY
        /\ InputSum(t.inputs, view, i) > BTC_MAX_MONEY

\* C22: btc_check_inputs, on a transaction that passes btc_tx_check_sanity:
\* the first input, in order, whose coin fails a test decides: score 0 when
\* the coin is missing from the view or is a coinbase coin with
\* height - coin.height < 100, else score 100 when its amount or the running
\* total is outside [0, MAX_MONEY]; with no such input the call fails with
\* score 100 when the inputs total less than the outputs or the fee is
\* outside [0, MAX_MONEY], and succeeds otherwise, and then
\* 0 <= inputs - outputs <= MAX_MONEY.
C22_InputsVerdict ==
  (txop.op = "check_inputs" /\ ~Score100(curtx) /\ ~Score10(curtx))
    => LET t     == curtx
           n     == Len(t.inputs)
           bad   == {i \in 1..n : Score0At(t, txop.view, txop.height, i)
                                    \/ Score100At(t, txop.view, txop.height, i)}
           first == CHOOSE i \in bad : \A j \in bad : i <= j
           fee   == InputSum(t.inputs, txop.view, n) - OutputSum(t.outputs, Len(t.outputs))
       IN  /\ ~txop.err.ub
           /\ bad # {} =>
                /\ txop.err.ret = 0
                /\ txop.err.score = IF Score0At(t, txop.view, txop.height, first)
                                     THEN 0 ELSE 100
           /\ (bad = {} /\ (fee < 0 \/ fee > BTC_MAX_MONEY))
                => (txop.err.ret = 0 /\ txop.err.score = 100)
           /\ (bad = {} /\ fee >= 0 /\ fee <= BTC_MAX_MONEY) => txop.err.ret = 1
           /\ txop.err.ret = 1 => (fee >= 0 /\ fee <= BTC_MAX_MONEY)

\* C22 witness: a transaction of two inputs has been failed with score 0 for
\* its second input, a coinbase coin 99 blocks below the height.
C22_Witness ==
  /\ txop.op = "check_inputs" /\ txop.err.ret = 0 /\ txop.err.score = 0
  /\ Len(curtx.inputs) = 2
  /\ curtx.inputs[1].prevout \in DOMAIN txop.view
  /\ ~txop.view[curtx.inputs[1].prevout].coinbase
  /\ curtx.inputs[2].prevout \in DOMAIN txop.view
  /\ txop.view[curtx.inputs[2].prevout].coinbase
  /\ txop.height - txop.view[curtx.inputs[2].prevout].height = 99

\* The double-SHA-256 of the items of l, each written by Write.
HashOfAll(Write(_), l) == btc_hash256(Flatten([i \in 1..Len(l) |-> Write(l[i])]))

Prevout(input) == btc_outpoint_write(input.prevout)
Sequence(input) == btc_uint32_write(input.sequence)

\* C23: in btc_tx_sighash_v1 computed with no hash taken from the cache,
\* hashPrevouts is all-zero iff ANYONECANPAY is set, else the hash of all
\* outpoints; hashSequences is all-zero iff ANYONECANPAY is set or the base
\* type is SINGLE or NONE, else the hash of all sequences; hashOutputs is
\* the hash of all outputs for base types other than SINGLE and NONE, the
\* hash of outputs[i] alone for SINGLE with i < #outputs, and all-zero for
\* NONE and for SINGLE with i >= #outputs.
C23_ComponentHashes ==
  txop.op = "sighash_v1" =>
    LET t      == curtx
        r      == btc_tx_sighash_v1(t, txop.index, txop.prev, txop.value, txop.type,
                                    FALSE, FreshCache)
        acp    == (txop.type \div 128) % 2 = 1
        single == txop.type % 32 = 3
        none   == txop.type % 32 = 2
    IN  /\ (r.prevouts = ZeroHash) <=> acp
        /\ ~acp => r.prevouts = HashOfAll(Prevout, t.inputs)
        /\ (r.sequences = ZeroHash) <=> (acp \/ single \/ none)
        /\ ~(acp \/ single \/ none) => r.sequences = HashOfAll(Sequence, t.inputs)
        /\ (~single /\ ~none) => r.outputs = HashOfAll(btc_output_write, t.outputs)
        /\ (single /\ txop.index < Len(t.outputs))
             => r.outputs = btc_hash256(btc_output_write(t.outputs[txop.index + 1]))
        /\ (none \/ (single /\ txop.index >= Len(t.outputs))) => r.outputs = ZeroHash
        /\ r.hash.bytes.prevouts = r.prevouts
        /\ r.hash.bytes.sequences = r.sequences
        /\ r.hash.bytes.outputs = r.outputs

\* C23 witness: SINGLE at an input that has no output of its index, in a
\* transaction that has an output.
C23_Witness ==
  /\ txop.op = "sighash_v1" /\ txop.type % 32 = BTC_SIGHASH_SINGLE
  /\ txop.index = 1 /\ Len(curtx.outputs) = 1
  /\ txop.parts.outputs = ZeroHash /\ txop.parts.prevouts # ZeroHash

\* C24: in a sequence of btc_tx_sighash_v1 computations over inputs of one
\* transaction, with any types, that starts from a fresh cache, every
\* digest is the digest computed with no cache; a slot of the cache is
\* written only together with its present bit, and a slot that is present
\* never changes.
C24_CacheTransparent ==
  /\ [](txop.op = "sighash_v1" =>
          txop.hash = btc_tx_sighash_v1(curtx, txop.index, txop.prev, txop.value,
                                        txop.type, FALSE, FreshCache).hash)
  /\ [][/\ cache'.prevouts # cache.prevouts => (~cache.has_prevouts /\ cache'.has_prevouts)
        /\ cache'.sequences # cache.sequences => (~cache.has_sequences /\ cache'.has_sequences)
        /\ cache'.outputs # cache.outputs => (~cache.has_outputs /\ cache'.has_outputs)
        /\ cache.has_prevouts => cache'.has_prevouts
        /\ cache.has_sequences => cache'.has_sequences
        /\ cache.has_outputs => cache'.has_outputs]_vars

\* C24 witness: the digest for the second input takes all three hashes
\* from the cache.
C24_Witness ==
  /\ txop.op = "sighash_v1" /\ txop.index = 1
  /\ txop.parts.hits = {<<"prevouts", TRUE>>, <<"sequences", TRUE>>, <<"outputs", TRUE>>}

\* C37: the legacy digest of input i commits to the other inputs as the type
\* allows.  With ANYONECANPAY any transaction with the same input i, outputs,
\* version and locktime gives the same digest; without it the digest stays
\* the same when the script of another input changes, and when its sequence
\* changes if the base type is NONE or SINGLE.
C37_OtherInputsAsTypeAllows ==
  (txop.op = "sighash_v0" /\ txop.index < Len(curtx.inputs)) =>
    LET idx  == txop.index
        type == txop.type
        g    == CHOOSE x \in SighashGarbage(curtx, idx, type) : TRUE
        H(t, prev) == btc_tx_sighash_v0(t, idx, prev, type, g).hash
        acp  == (type \div BTC_SIGHASH_ANYONECANPAY) % 2 = 1
        others == (1..Len(curtx.inputs)) \ {idx + 1}
    IN  \A prev \in PrevScripts :
          H(curtx, prev) = txop.hash =>
            /\ acp =>
                 \A t \in TxUniverse :
                   (/\ idx < Len(t.inputs)
                    /\ t.inputs[idx + 1] = curtx.inputs[idx + 1]
                    /\ t.outputs = curtx.outputs) => H(t, prev) = txop.hash
            /\ ~acp =>
                 \A j \in others :
                   /\ \A i \in InputPool :
                        H([curtx EXCEPT !.inputs[j].script = i.script], prev) = txop.hash
                   /\ type % 32 \in {BTC_SIGHASH_NONE, BTC_SIGHASH_SINGLE} =>
                        \A i \in InputPool :
                          H([curtx EXCEPT !.inputs[j].sequence = i.sequence], prev)
                            = txop.hash

\* C37 witness: a digest of type NONE, without ANYONECANPAY, for the first
\* of two inputs whose sequences differ, the second one not 0.
C37_Witness ==
  /\ txop.op = "sighash_v0" /\ txop.type = BTC_SIGHASH_NONE /\ txop.index = 0
  /\ Len(curtx.inputs) = 2
  /\ curtx.inputs[2].sequence # 0
  /\ curtx.inputs[2].script # <<>>
  /\ txop.hash # OneHash

(***************************************************************************)
(* CompactBlockCodec properties.                                           *)
(***************************************************************************)
\* No two items of the list are equal.
Distinct(l) == Cardinality({l[i] : i \in 1..Len(l)}) = Len(l)

\* C11 as stated: for every block with a transaction, set_block, setup,
\* the request, the response of the block's owner, fill_missing and
\* finalize succeed one after the other and give a block with the header
\* and the transactions of the block, in its order.
C11_RoundTripEveryBlock ==
  cop.rt => /\ cop.op = "setup" => cop.ret = 1
            /\ cop.op = "fill" => cop.ret = 1
            /\ cop.op = "finalize" => (cop.ret = 1 /\ zblock = peer)

\* C11: for every block with a transaction, not more transactions than the
\* size checks of setup admit, and pairwise distinct short ids of its
\* transactions after the first under the key drawn, set_block, setup, the
\* request, the response of the block's owner, fill_missing and finalize
\* succeed one after the other and give a block with the header and the
\* transactions of the block, in its order.
C11_RoundTrip ==
  (cop.rt /\ ~TooMany(Len(peer.txs)) /\ Distinct(cmpct.ids))
    => /\ cop.op = "setup" => cop.ret = 1
       /\ cop.op = "request" => Len(getblocktxn.indexes) = Len(peer.txs) - 1
       /\ cop.op = "respond" => Len(blocktxn.txs) = Len(peer.txs) - 1
       /\ cop.op = "fill" => (cop.ret = 1 /\ cmpct.count = Len(peer.txs))
       /\ cop.op = "finalize" => (cop.ret = 1 /\ zblock = peer)

\* C11 witness: a block of three different transactions has been rebuilt
\* from its compact block and the response to the request.
C11_Witness ==
  /\ cop.rt /\ cop.op = "finalize" /\ cop.ret = 1
  /\ Len(peer.txs) = 3 /\ Distinct(peer.txs)
  /\ zblock = peer

\* The number of slots setup is asked for.
Total(blk) == Len(blk.ptx) + Len(blk.ids)

\* C15: setup returns -1 (malformed), neither 0 (collision) nor 1
\* (success), and has not sized avail, whenever the total of prefilled
\* transactions and short ids is 0, above MAX_BLOCK_SIZE / 10 or above
\* (MAX_BLOCK_SIZE - 81) / 60; for every other total it goes past the size
\* checks and sizes avail to the total.
C15_SizeChecks ==
  cop.op = "setup"
    => IF \/ Total(cmpct) = 0
          \/ Total(cmpct) > BTC_MAX_BLOCK_SIZE \div 10
          \/ Total(cmpct) > (BTC_MAX_BLOCK_SIZE - 81) \div 60
       THEN cop.ret = -1 /\ cmpct.avail.length = 0
       ELSE cmpct.avail.length = Total(cmpct)

\* C15 witness: setup has rejected a compact block of one slot more than
\* (MAX_BLOCK_SIZE - 81) / 60, fewer than MAX_BLOCK_SIZE / 10.
C15_Witness ==
  /\ cop.op = "setup" /\ cop.ret = -1
  /\ Total(cmpct) = (BTC_MAX_BLOCK_SIZE - 81) \div 60 + 1
  /\ Total(cmpct) <= BTC_MAX_BLOCK_SIZE \div 10

\* The cursor of setup at prefilled transaction i (counted from 1): -1
\* before the first, then last += _index + 1.
RECURSIVE Cursor(_, _)
Cursor(ptx, i) == IF i = 0 THEN -1 ELSE Cursor(ptx, i - 1) + ptx[i].index + 1

\* What setup has done with the prefilled transactions of a compact block
\* that passed the size checks, when it refuses the cursors in refused and
\* no others: -1 with the transactions before the first refusal placed, or
\* every prefilled transaction at its cursor, count at their number and
\* nothing else in avail.
PlacedUnless(refused) ==
  LET n == Len(cmpct.ptx)
  IN  IF refused # {}
      THEN /\ cop.ret = -1
           /\ cmpct.count = (CHOOSE i \in refused : \A k \in refused : i <= k) - 1
      ELSE /\ cop.ret # -1
           /\ cmpct.count = n
           /\ DOMAIN cmpct.avail.items = {Cursor(cmpct.ptx, i) : i \in 1..n}
           /\ \A i \in 1..n : cmpct.avail.items[Cursor(cmpct.ptx, i)] = cmpct.ptx[i].tx
           /\ \A i \in 1..(n - 1) : Cursor(cmpct.ptx, i) < Cursor(cmpct.ptx, i + 1)

\* C16 as stated: setup moves a cursor from -1 by _index + 1 for each
\* prefilled transaction and returns -1 when the cursor of the i-th
\* (counted from 0) is below 0, above 0xffff, or at or above ids.length + i;
\* otherwise it stores each at its cursor and counts it.
C16_CursorRejectsAtOrAbove ==
  (cop.op = "setup" /\ ~TooMany(Total(cmpct)))
    => PlacedUnless({i \in 1..Len(cmpct.ptx) :
                       \/ Cursor(cmpct.ptx, i) < 0
                       \/ Cursor(cmpct.ptx, i) > 65535
                       \/ Cursor(cmpct.ptx, i) >= Len(cmpct.ids) + (i - 1)})

\* C16: setup moves a cursor from -1 by _index + 1 for each prefilled
\* transaction and returns -1 when the cursor of the i-th (counted from 0)
\* is below 0, above 0xffff, or above ids.length + i; otherwise it stores
\* each at its cursor and counts it, so that the positions of the prefilled
\* transactions increase strictly and no slot is filled twice.
C16_CursorRejectsAbove ==
  (cop.op = "setup" /\ ~TooMany(Total(cmpct)))
    => PlacedUnless({i \in 1..Len(cmpct.ptx) :
                       \/ Cursor(cmpct.ptx, i) < 0
                       \/ Cursor(cmpct.ptx, i) > 65535
                       \/ Cursor(cmpct.ptx, i) > Len(cmpct.ids) + (i - 1)})

\* C16 witness: setup has placed two prefilled transactions, the second at
\* the cursor ids.length + 1, and a short id between them.
C16_Witness ==
  /\ cop.op = "setup" /\ cop.ret = 1
  /\ Len(cmpct.ptx) = 2 /\ Len(cmpct.ids) = 1
  /\ Cursor(cmpct.ptx, 2) = Len(cmpct.ids) + 1
  /\ cmpct.count = 2

\* setup accepts the cursor of every prefilled transaction.
PlacementPasses(blk) ==
  \A i \in 1..Len(blk.ptx) :
    ~Unplaceable(Cursor(blk.ptx, i), Len(blk.ids), i - 1)

\* C17: when the size checks and the placement of the prefilled
\* transactions pass, setup returns 0 (collision) exactly when a short id
\* occurs twice in ids, and 1 otherwise with every short id in id_map; 0 is
\* not the -1 of a malformed block, which such a block never gets.
C17_CollisionIffDuplicate ==
  (cop.op = "setup" /\ ~TooMany(Total(cmpct)) /\ PlacementPasses(cmpct))
    => /\ cop.ret \in {0, 1}
       /\ cop.ret = 0 <=> ~Distinct(cmpct.ids)
       /\ cop.ret = 1 => {p[1] : p \in cmpct.id_map} = {cmpct.ids[i] : i \in 1..Len(cmpct.ids)}

\* C17 witness: setup has met a collision in the compact block a sender
\* built from a block of different transactions.
C17_Witness ==
  /\ cop.op = "setup" /\ cop.rt /\ cop.ret = 0
  /\ Distinct(peer.txs) /\ Len(cmpct.ids) = 2 /\ cmpct.ids[1] = cmpct.ids[2]

\* The slots the prefilled transactions took in setup.
PrefilledSlots(blk) == {Cursor(blk.ptx, i) : i \in 1..Len(blk.ptx)}

\* fill_missing has put the first n transactions of the response, in
\* their order, into the first n slots that setup left empty, and left the
\* prefilled transactions where they were.
FilledLeftToRight(n) ==
  LET pre == PrefilledSlots(cmpct)
      new == DOMAIN cmpct.avail.items \ pre
  IN  /\ Cardinality(new) = n
      /\ \A p \in new : p < Total(cmpct) /\ \A q \in 0..(p - 1) : q \in DOMAIN cmpct.avail.items
      /\ \A p \in new : cmpct.avail.items[p] = blocktxn.txs[1 + Cardinality({q \in new : q < p})]
      /\ \A i \in 1..Len(cmpct.ptx) : cmpct.avail.items[Cursor(cmpct.ptx, i)] = cmpct.ptx[i].tx

\* C18 as stated: fill_missing fills the empty slots left to right with
\* the transactions of the response in order, and its result tells three
\* outcomes apart: incomplete (the 0 returned from within the loop) when
\* the response has fewer transactions than empty slots, malformed (neither
\* that 0 nor the 1 of success) when it has more, and success (1) when it
\* has exactly as many, with count == total.
C18_ThreeOutcomes ==
  cop.op = "fill"
    => /\ FilledLeftToRight(IF cop.given < cop.need THEN cop.given ELSE cop.need)
       /\ cop.given < cop.need => cop.ret = 0
       /\ cop.given > cop.need => cop.ret \notin {0, 1}
       /\ cop.given = cop.need => (cop.ret = 1 /\ cmpct.count = Total(cmpct))

\* C18: fill_missing fills the empty slots left to right with the
\* transactions of the response in order and returns 1 exactly when the
\* response has as many transactions as there were empty slots, with
\* count == total; it returns 0 both when the response has fewer, with
\* count below total by the slots still empty, and when it has more, with
\* every slot filled and count == total.
C18_TwoResults ==
  cop.op = "fill"
    => /\ FilledLeftToRight(IF cop.given < cop.need THEN cop.given ELSE cop.need)
       /\ cop.given < cop.need
            => (cop.ret = 0 /\ cmpct.count = Total(cmpct) - (cop.need - cop.given))
       /\ cop.given > cop.need => (cop.ret = 0 /\ cmpct.count = Total(cmpct))
       /\ cop.given = cop.need => (cop.ret = 1 /\ cmpct.count = Total(cmpct))

\* C18 witness: fill_missing has returned 0 for a response of two
\* transactions to a compact block with one empty slot, after a prefilled
\* one.
C18_Witness ==
  /\ cop.op = "fill" /\ cop.ret = 0
  /\ cop.need = 1 /\ cop.given = 2
  /\ 0 \in PrefilledSlots(cmpct)
  /\ cmpct.count = Total(cmpct)

\* C19: the request built from a compact block after a setup that
\* succeeded lists exactly the positions of 0..total-1 whose slot of avail
\* is empty, in strictly ascending order, and as many of them as
\* total - count.
C19_RequestListsEmptySlots ==
  cop.op = "request"
    => LET l == getblocktxn.indexes
       IN  /\ {l[k] : k \in 1..Len(l)}
                = (0..(Total(cmpct) - 1)) \ DOMAIN cmpct.avail.items
           /\ \A k \in 1..(Len(l) - 1) : l[k] < l[k + 1]
           /\ Len(l) = Total(cmpct) - cmpct.count

\* C19 witness: a request for the slots on both sides of a prefilled
\* transaction.
C19_Witness ==
  /\ cop.op = "request"
  /\ getblocktxn.indexes = <<0, 2>>
  /\ DOMAIN cmpct.avail.items = {1}

\* The absolute index that the first i differences of a getblocktxn
\* message stand for: each index is the one before it, plus one, plus the
\* difference.
RECURSIVE AbsoluteOf(_, _)
AbsoluteOf(sent, i) ==
  IF i = 1 THEN sent[1] ELSE AbsoluteOf(sent, i - 1) + 1 + sent[i]

\* C20: for every strictly increasing list of indexes, none above 0xffff,
\* btc_getblocktxn_read of the bytes of btc_getblocktxn_write succeeds and
\* gives the list; and btc_getblocktxn_read fails whenever one of the
\* differences it is given stands for an index above 0xffff, and gives the
\* indexes they stand for when none does.
C20_DifferentialRoundTrip ==
  /\ cop.op = "read_written" => (cop.ok /\ cop.out = getblocktxn.indexes)
  /\ cop.op = "read_wire"
       => IF \E i \in 1..Len(cop.sent) : AbsoluteOf(cop.sent, i) > 65535
          THEN ~cop.ok
          ELSE cop.ok /\ cop.out = [i \in 1..Len(cop.sent) |-> AbsoluteOf(cop.sent, i)]

\* C20 witness: a request for three positions, the last two neighbours at
\* the top of the range, has been written and read back.
C20_Witness ==
  /\ cop.op = "read_written" /\ cop.ok
  /\ getblocktxn.indexes = <<253, 65534, 65535>>
  /\ cop.out = getblocktxn.indexes

\* C38: after a setup that returns 1, id_map holds one position for each
\* short id: the k-th id has the k-th empty slot of avail, counted upwards;
\* the positions are below total, empty and different from each other.
C38_IdsMapToEmptySlots ==
  (cop.op = "setup" /\ cop.ret = 1) =>
    LET total  == Len(cmpct.ptx) + Len(cmpct.ids)
        filled == DOMAIN cmpct.avail.items
        Rank(p) == p - Cardinality({f \in filled : f < p})
    IN  /\ cmpct.avail.length = total
        /\ Cardinality(cmpct.id_map) = Len(cmpct.ids)
        /\ Cardinality({m[2] : m \in cmpct.id_map}) = Len(cmpct.ids)
        /\ \A m \in cmpct.id_map :
             /\ m[2] \in 0..(total - 1)
             /\ m[2] \notin filled
             /\ Rank(m[2]) + 1 \in 1..Len(cmpct.ids)
             /\ cmpct.ids[Rank(m[2]) + 1] = m[1]

\* C38 witness: two short ids around a prefilled transaction at position 1.
C38_Witness ==
  /\ cop.op = "setup" /\ cop.ret = 1
  /\ DOMAIN cmpct.avail.items = {1}
  /\ Len(cmpct.ids) = 2
  /\ <<cmpct.ids[1], 0>> \in cmpct.id_map
  /\ <<cmpct.ids[2], 2>> \in cmpct.id_map

\* C39: from setup until finalize, whatever the responses given to
\* fill_missing and whatever it returned, count is the number of the slots
\* of avail that are filled and is at most total, so that count = total
\* exactly when no slot is empty; and finalize hands the slots to the block
\* in the order of their positions.
C39_CountIsFilledSlots ==
  /\ [](cop.op \in {"setup", "request", "respond", "respond_again", "fill", "refill"} =>
          LET total  == Len(cmpct.ptx) + Len(cmpct.ids)
              filled == DOMAIN cmpct.avail.items
          IN  /\ cmpct.count = Cardinality(filled)
              /\ cmpct.count <= total
              /\ (cop.op # "setup" \/ cop.ret >= 0) =>
                   (cmpct.count = total <=> filled = 0..(cmpct.avail.length - 1)))
  /\ [][cop'.op = "finalize" =>
          /\ cop'.ret = 1
          /\ zblock'.header = cmpct.header
          /\ zblock'.txs = [i \in 1..cmpct.avail.length |-> cmpct.avail.items[i - 1]]
          /\ Len(zblock'.txs) = Len(cmpct.ptx) + Len(cmpct.ids)]_vars

\* C39 witness: a block of three transactions finalized after a response
\* that was turned down and a second one that filled the last slot.
C39_Witness ==
  /\ cop.op = "refill" /\ cop.ret = 1 /\ cop.need = 1 /\ cop.given = 1
  /\ cmpct.count = 3 /\ cmpct.avail.length = 3
  /\ Len(cmpct.ptx) = 1

\* C40: a read that fails leaves the object it was reading into as it was
\* before the call: a request has no indexes, a transaction is as
\* btc_tx_init left it.
C40_FailedReadChangesNothing ==
  /\ (cop.op \in {"read_written", "read_wire"} /\ ~cop.ok)
       => cop.out = btc_getblocktxn_init.indexes
  /\ (txop.op = "read" /\ ~txop.ok) => txop.out = btc_tx_init

====
